---- MODULE Spec2Model ----
(***************************************************************************)
(* PYDecoder: N1MM+ telemetry -> band -> Antenna Genius + FTDI BCD output.  *)
(*                                                                         *)
(* The model follows the objects of pydecoder: FTDIDeviceManager           *)
(* (devices/ftdi.py), N1MMListener (networking/n1mm.py), AntennaGenius     *)
(* (networking/antenna_genius.py) and DecoderEngine                        *)
(* (core/decoder_engine.py).  Each method is an operator from the object   *)
(* before the call (and the outcomes of the driver / OS calls it makes)    *)
(* to the object after the call together with the external calls issued.   *)
(***************************************************************************)
EXTENDS Integers, Sequences, FiniteSets, TLC

VARIABLES
    PYFTDI_BACKEND,   \* os.environ['PYFTDI_BACKEND']
    ftdi_manager,     \* DecoderEngine.ftdi_manager : FTDIDeviceManager
    ftdi_io,          \* observation: the last FTDIDeviceManager call and its hardware calls
    ctor,             \* observation: what the driver did during FTDIDeviceManager.__init__
    n1mm_listener,    \* DecoderEngine.n1mm_listener : N1MMListener
    antenna_genius,   \* DecoderEngine.antenna_genius : AntennaGenius
    settings,         \* DecoderEngine.settings
    is_active,        \* DecoderEngine.is_active
    radio_freq,       \* DecoderEngine.radio_freq, in hundredths of kHz
    now,              \* time.time(), in seconds
    tick,             \* observation: what the last engine call did
    calls,            \* observation: number of calls made so far
    ag_io,            \* observation: what the last call on antenna_genius did
    ag_twin,          \* the same calls made on a client without status callback
    n1mm_io,          \* observation: what the last call on n1mm_listener did
    band,             \* observation: a frequency and what band_helpers returned for it
    cfg,              \* observation: a configuration and what validate_config returned
    ui                \* DecoderUI: Tk's timer queue and the position of freq_update

vars == <<PYFTDI_BACKEND, ftdi_manager, ftdi_io, ctor, n1mm_listener,
          antenna_genius, settings, is_active, radio_freq, now, tick, calls,
          ag_io, ag_twin, n1mm_io, band, cfg, ui>>

\* the objects of the running program, which calls of the pure functions leave alone
program_vars == <<PYFTDI_BACKEND, ftdi_manager, ftdi_io, ctor, n1mm_listener,
                  antenna_genius, settings, is_active, radio_freq, now, tick, calls,
                  ag_io, ag_twin, n1mm_io, ui>>

\* what direct calls on one component leave alone
net_io == <<ag_io, ag_twin, n1mm_io>>

engine_vars == <<n1mm_listener, antenna_genius, settings, is_active, radio_freq,
                 now, tick, calls, net_io>>

(* Bounds *)

\* largest number of compatible FT232H adapters the driver enumerates
MaxDiscovered == 3

\* engine calls (switch, update_frequency, shutdown) in one run
MaxCalls == 4

\* calls made directly on the AntennaGenius client in one run
MaxAgCalls == 4

\* consecutive set_antenna calls in one run of the sequence-tag specification
MaxCommands == 101

\* seconds that pass in one run
MaxElapsed == 31

\* time.time() when the engine is constructed
StartTime == 1000

\* engine calls made by the handlers of the window in one run
MaxUiCalls == 3

\* engine calls in one run of the specification of the samples at the band edges
MaxSampleCalls == 3

\* engine calls in one run of the specification of the settings changes
MaxRebindCalls == 5

\* the frequencies given to band_helpers reach 500 * MaxGrid kHz on both sides
\* of zero
MaxGrid == 124

(* Helpers on Python lists *)

Range(s) == {s[k] : k \in 1..Len(s)}

\* list.remove(x) after an "x in list" test
Remove(s, x) == SelectSeq(s, LAMBDA e : e # x)

\* "if x not in list: list.append(x)"
AppendNew(s, x) == IF x \in Range(s) THEN s ELSE Append(s, x)

Max2(a, b) == IF a >= b THEN a ELSE b
Min2(a, b) == IF a <= b THEN a ELSE b

(* FTDIDeviceManager *)

\* gpio_device0 / gpio_device1 / gpio_device2
Slots == 0..2

SIM_URL == "ftdi://simulation:232h:SIM00001/1"

\* f"ftdi://ftdi:232h:{serial_str}/1" of the k-th compatible adapter
DeviceUrl(k) == <<"ftdi://ftdi:232h", k>>

DiscoveredUrls(n) == [k \in 1..n |-> DeviceUrl(k - 1)]

\* the fields assigned at the top of __init__
NewManager(simulation_mode) ==
    [ gpio_device        |-> [i \in Slots |-> "None"],
      ft232h_device0     |-> "None",
      direct_mode        |-> FALSE,
      device_urls        |-> << >>,
      device_count       |-> 0,
      simulation_mode    |-> simulation_mode,
      configured_devices |-> << >> ]


\* What the driver does while one manager is constructed:
\*   forced      the simulation_mode argument
\*   has_backend ftd2xx imports and createDeviceInfoList() answers (lines 93-104)
\*   gpio_raise_at  index of the GpioMpsseController() call of _discover_devices
\*               that raises (3: none does), gpio_raise_kind which handler takes it
\*   discovered  number of compatible FT232H adapters ftd2xx enumerates
\*   direct      the direct ftd2xx configuration of device 0: "ok", "fail"
\*               (caught at line 413/415/417: pyftdi fallback follows) or "error"
\*               (raised to line 436: no fallback)
\*   ft_opened   a failing direct attempt had already stored the opened handle
\*   pyftdi      per slot, whether GpioMpsseController().configure() succeeds
DriverBehaviours ==
    [ forced          : BOOLEAN,
      has_backend     : BOOLEAN,
      gpio_raise_at   : 0..3,
      gpio_raise_kind : {"simulate", "already registered"},
      discovered      : 0..MaxDiscovered,
      direct          : {"ok", "fail", "error"},
      ft_opened       : BOOLEAN,
      pyftdi          : [Slots -> {"ok", "fail"}] ]

\* _discover_devices (only called in hardware mode)
discover_devices(self, d) ==
    IF d.gpio_raise_at < 3
    THEN \* a GpioMpsseController() call raised: the controllers before it exist
         LET created == [self EXCEPT !.gpio_device =
                            [i \in Slots |-> IF i < d.gpio_raise_at THEN "ctrl" ELSE "None"]]
         IN  IF d.gpio_raise_kind = "already registered"
             THEN created      \* ValueError "already registered": logged only
             ELSE IF created.simulation_mode
                  THEN created
                  ELSE [created EXCEPT !.simulation_mode = TRUE,
                                       !.device_urls = <<SIM_URL>>,
                                       !.device_count = 1]
    ELSE LET urls == self.device_urls \o DiscoveredUrls(d.discovered)
         IN  [self EXCEPT !.gpio_device = [i \in Slots |-> "ctrl"],
                          !.device_urls = urls,
                          !.device_count = Len(urls)]

\* One iteration of the loop of _configure_devices, ftd2xx branch (lines 305-498).
\* Result: the manager and whether the method returned from inside the loop.
ConfigureFtd2xx(self, device_idx, d) ==
    IF device_idx = 0 /\ self.gpio_device[0] # "None"
    THEN CASE d.direct = "ok" ->
                [ self |-> [self EXCEPT !.ft232h_device0 = "handle",
                                        !.direct_mode = TRUE,
                                        !.configured_devices = AppendNew(@, 0)],
                  returned |-> TRUE ]                          \* line 412
           [] d.direct = "fail" ->
                LET opened == [self EXCEPT !.ft232h_device0 =
                                  IF d.ft_opened THEN "handle" ELSE @]
                IN  [ self |-> IF d.pyftdi[0] = "ok"
                               THEN [opened EXCEPT !.configured_devices = AppendNew(@, 0)]
                               ELSE opened,                    \* line 435: logged only
                      returned |-> FALSE ]
           [] OTHER ->
                [ self |-> [self EXCEPT !.gpio_device[0] = "None"],   \* line 455
                  returned |-> FALSE ]
    ELSE IF device_idx \in {1, 2} /\ self.gpio_device[device_idx] # "None"
    THEN [ self |-> IF d.pyftdi[device_idx] = "ok"
                    THEN [self EXCEPT !.configured_devices = AppendNew(@, device_idx)]
                    ELSE [self EXCEPT !.gpio_device[device_idx] = "None"],
           returned |-> FALSE ]
    ELSE [ self |-> self, returned |-> FALSE ]

\* One iteration, standard approach (lines 505-553), taken when the backend is
\* not ftd2xx.
ConfigureStandard(self, device_idx, d) ==
    IF device_idx \in Slots /\ self.gpio_device[device_idx] # "None"
    THEN [ self |-> IF d.pyftdi[device_idx] = "ok"
                    THEN [self EXCEPT !.configured_devices = AppendNew(@, device_idx)]
                    ELSE [self EXCEPT !.gpio_device[device_idx] = "None"],
           returned |-> FALSE ]
    ELSE [ self |-> self, returned |-> FALSE ]

\* the for loop of _configure_devices from device_idx on
RECURSIVE ConfigureLoop(_, _, _, _)
ConfigureLoop(self, device_idx, d, ftd2xx_mode) ==
    IF device_idx >= Len(self.device_urls)
    THEN [ self |-> self, returned |-> FALSE ]
    ELSE LET r == IF ftd2xx_mode THEN ConfigureFtd2xx(self, device_idx, d)
                                 ELSE ConfigureStandard(self, device_idx, d)
         IN  IF r.returned THEN r
             ELSE ConfigureLoop(r.self, device_idx + 1, d, ftd2xx_mode)

\* _configure_devices
configure_devices(self, d, ftd2xx_mode) ==
    LET r == ConfigureLoop(self, 0, d, ftd2xx_mode)
    IN  IF r.returned THEN r.self
        ELSE IF r.self.configured_devices = << >> /\ ~r.self.simulation_mode
             THEN [r.self EXCEPT !.simulation_mode = TRUE]     \* lines 578-582
             ELSE r.self

\* a construction that discovers and configures whatever simulation_mode says
InitAlwaysDiscovers(d, ftd2xx_mode) ==
    configure_devices(discover_devices(NewManager(d.forced), d), d, ftd2xx_mode)

\* FTDIDeviceManager.__init__
FTDIDeviceManager_init(d, ftd2xx_mode) ==
    LET fresh   == NewManager(d.forced)
        checked == IF ~d.forced /\ ~d.has_backend
                   THEN [fresh EXCEPT !.simulation_mode = TRUE]
                   ELSE fresh
    IN  IF ~checked.simulation_mode
        THEN configure_devices(discover_devices(checked, d), d, ftd2xx_mode)
        ELSE [checked EXCEPT !.device_urls = Append(@, SIM_URL),
                             !.device_count = 1]

\* the handlers of write_bcd tell these apart (lines 696-713)
ErrorClasses == {"FtdiError", "OSError", "Exception"}

\* What a hardware write to each slot does in one call: "ok" or the class of
\* the exception it raises; the writes that fail in one call raise the same class.
WriteFaults ==
    {[i \in Slots |-> IF i \in F THEN c ELSE "ok"] : F \in SUBSET Slots, c \in ErrorClasses}

NoFault == [i \in Slots |-> "ok"]

\* configured slots in the order write_bcd and close visit them (lines 648-654,
\* 810-816)
ConfiguredGpio(self) ==
    SelectSeq(<<0, 1, 2>>,
              LAMBDA i : i \in Range(self.configured_devices) /\ self.gpio_device[i] # "None")

\* the slots the loop of lines 663-673 writes: it stops at the first failure
WrittenUntilFailure(devices, fault) ==
    LET bad == {k \in 1..Len(devices) : fault[devices[k]] # "ok"}
    IN  IF bad = {} THEN devices
        ELSE SubSeq(devices, 1, CHOOSE k \in bad : \A j \in bad : k <= j)

\* WriteDirect without the fallback of lines 634-637: the failing device is
\* removed and the manager stays in hardware mode
WriteDirectNoFallback(self, v, fault) ==
    IF 0 \in Range(self.configured_devices) /\ self.ft232h_device0 # "None"
    THEN [ self |-> IF fault[0] = "ok" THEN self
                    ELSE [self EXCEPT !.configured_devices = Remove(@, 0)],
           writes |-> <<0>>, value |-> v, simulated |-> FALSE ]
    ELSE [ self |-> self, writes |-> << >>, value |-> v, simulated |-> FALSE ]

\* write_bcd, direct ftd2xx mode (lines 603-638)
WriteDirect(self, v, fault) ==
    IF 0 \in Range(self.configured_devices) /\ self.ft232h_device0 # "None"
    THEN IF fault[0] = "ok"
         THEN [ self |-> self, writes |-> <<0>>, value |-> v, simulated |-> FALSE ]
         ELSE LET left == Remove(self.configured_devices, 0)
              IN  [ self |-> [self EXCEPT !.configured_devices = left,
                                          !.simulation_mode = IF left = << >> THEN TRUE ELSE @],
                    writes |-> <<0>>, value |-> v, simulated |-> (left = << >>) ]
    ELSE [ self |-> self, writes |-> << >>, value |-> v, simulated |-> FALSE ]

\* write_bcd, pyftdi controllers with the ftd2xx backend (lines 646-681)
WriteFtd2xx(self, v, fault) ==
    LET devices == ConfiguredGpio(self)
        written == WrittenUntilFailure(devices, fault)
        failed  == \E k \in 1..Len(written) : fault[written[k]] # "ok"
    IN  IF devices = << >>
        THEN [ self |-> [self EXCEPT !.simulation_mode = TRUE],
               writes |-> << >>, value |-> v, simulated |-> TRUE ]
        ELSE [ self |-> [self EXCEPT !.simulation_mode = IF failed THEN TRUE ELSE @],
                                                                     \* line 672
               writes |-> written, value |-> v, simulated |-> failed ]

\* write_bcd, one of the three per-device blocks of lines 692-753.  Device 0
\* keeps its place in configured_devices on an FtdiError (lines 696-704: the
\* "Operation not supported" test asks for the ftd2xx backend, which this path
\* excludes); every other error removes the device.
WriteStandardSlot(r, i, fault) ==
    IF i \in Range(r.self.configured_devices) /\ r.self.gpio_device[i] # "None"
    THEN [ r EXCEPT !.writes = Append(@, i),
                    !.self.configured_devices =
                        IF fault[i] = "ok" \/ (i = 0 /\ fault[i] = "FtdiError")
                        THEN @ ELSE Remove(@, i) ]
    ELSE r

\* write_bcd, pyftdi controllers with another backend (lines 683-759)
WriteStandard(self, v, fault) ==
    IF self.configured_devices = << >>
    THEN [ self |-> [self EXCEPT !.simulation_mode = TRUE],
           writes |-> << >>, value |-> v, simulated |-> TRUE ]
    ELSE LET r0 == [ self |-> self, writes |-> << >>, value |-> v, simulated |-> FALSE ]
             r3 == WriteStandardSlot(WriteStandardSlot(WriteStandardSlot(r0, 0, fault),
                                                       1, fault), 2, fault)
         IN  IF r3.self.configured_devices = << >>
             THEN [ r3 EXCEPT !.self.simulation_mode = TRUE, !.simulated = TRUE ]
             ELSE r3

\* a clamp that only enforces the upper limit
ClampUpperOnly(bcd_value) == Min2(bcd_value, 255)

\* lines 590-593
ClampBcd(bcd_value) ==
    IF ~(0 <= bcd_value /\ bcd_value <= 255)
    THEN Max2(0, Min2(bcd_value, 255))
    ELSE bcd_value

\* FTDIDeviceManager.write_bcd: the manager after the call, the slots a
\* hardware write was issued to (in order), the value written, and whether the
\* SIMULATION line was logged.
write_bcd(self, bcd_value, fault, ftd2xx_mode) ==
    LET v == ClampBcd(bcd_value)
    IN  IF self.simulation_mode
        THEN [ self |-> self, writes |-> << >>, value |-> v, simulated |-> TRUE ]
        ELSE IF self.direct_mode THEN WriteDirect(self, v, fault)
        ELSE IF ftd2xx_mode THEN WriteFtd2xx(self, v, fault)
        ELSE WriteStandard(self, v, fault)

\* close, direct ftd2xx mode (lines 773-802); _ft232h_device1/2 are never set
CloseDirect(self, close_fault) ==
    IF self.ft232h_device0 # "None"
    THEN [ self |-> [self EXCEPT !.ft232h_device0 =
                        IF 0 \in close_fault THEN @ ELSE "None"],
           releases |-> <<0>> ]
    ELSE [ self |-> self, releases |-> << >> ]

\* close, pyftdi controllers (lines 804-839): the configured ones, then the
\* ones created but not configured
CloseGpio(self) ==
    [ self |-> self,
      releases |-> ConfiguredGpio(self) \o
                   SelectSeq(<<0, 1, 2>>,
                             LAMBDA i : self.gpio_device[i] # "None"
                                        /\ i \notin Range(self.configured_devices)) ]

\* close without the simulation-mode test of lines 768-770
CloseIgnoringSimulation(self, close_fault) ==
    IF self.direct_mode THEN CloseDirect(self, close_fault)
    ELSE CloseGpio(self)

\* FTDIDeviceManager.close: the manager after the call and the slots whose
\* handle close() was called on.  close_fault: the slots whose close() raises.
close(self, close_fault) ==
    IF self.simulation_mode
    THEN [ self |-> self, releases |-> << >> ]
    ELSE IF self.direct_mode THEN CloseDirect(self, close_fault)
    ELSE CloseGpio(self)

\* a listing of the devices that are configured now, not of the discovered ones
ConfiguredUrls(self) ==
    [k \in 1..Len(self.configured_devices) |-> DeviceUrl(self.configured_devices[k])]

\* FTDIDeviceManager.get_device_urls
get_device_urls(self) == self.device_urls

(* The manager driven through its public methods *)

\* os.environ.get('PYFTDI_BACKEND') == 'ftd2xx' (lines 299, 643)
ftd2xx_mode == PYFTDI_BACKEND = "ftd2xx"

\* Driver behaviours that differ in something __init__ looks at: what is never
\* consulted is fixed, so that one construction is one initial state.
Consulted(d) ==
    /\ (d.forced => d.has_backend)
    /\ (d.forced \/ ~d.has_backend =>
            d.gpio_raise_at = 3 /\ d.discovered = 0 /\ d.direct = "error"
            /\ d.pyftdi = [i \in Slots |-> "fail"])
    /\ (d.gpio_raise_at = 3 => d.gpio_raise_kind = "simulate")
    /\ (d.gpio_raise_at < 3 => d.discovered = 0)
    /\ (d.direct # "fail" => ~d.ft_opened)

\* values handed to write_bcd when the manager is called directly
BcdInputs == {-1, 0, 5, 255, 300}

\* the observation of a manager call that issued nothing
NoIo(op, self) ==
    [ op                  |-> op,
      pre                 |-> self,      \* the manager when the call was made
      bcd_value           |-> 0,
      faulty              |-> {},
      writes              |-> << >>,
      value               |-> 0,
      simulated           |-> FALSE,
      releases            |-> << >>,
      close_faulty        |-> {},
      failed_before       |-> {},        \* slots whose write raised in an earlier call
      failed_ever         |-> {},        \* ... or in this one
      urls                |-> << >> ]

\* the slots of a call whose issued write raised
FailedIn(writes, fault) == {i \in Range(writes) : fault[i] # "ok"}

\* the observation of write_bcd(bcd_value) on self, r its result
WriteIo(self, bcd_value, fault, r, before) ==
    [ NoIo("write_bcd", self) EXCEPT
        !.bcd_value   = bcd_value,
        !.faulty      = {i \in Slots : fault[i] # "ok"},
        !.writes      = r.writes,
        !.value       = r.value,
        !.simulated   = r.simulated,
        !.failed_before = before.failed_ever,
        !.failed_ever   = before.failed_ever \cup FailedIn(r.writes, fault) ]

FtdiInit ==
    /\ PYFTDI_BACKEND = "ftd2xx"          \* set when devices/ftdi.py is imported (lines 24-39)
    /\ \E d \in DriverBehaviours :
          /\ Consulted(d)
          /\ ctor = d
          /\ ftdi_manager = FTDIDeviceManager_init(d, ftd2xx_mode)
          /\ ftdi_io = NoIo("init", NewManager(d.forced))

\* manager.write_bcd(bcd_value)
FtdiWriteBcd ==
    \E bcd_value \in BcdInputs, fault \in WriteFaults :
        LET r == write_bcd(ftdi_manager, bcd_value, fault, ftd2xx_mode)
        IN  /\ ftdi_manager' = r.self
            /\ ftdi_io' = WriteIo(ftdi_manager, bcd_value, fault, r, ftdi_io)
            /\ UNCHANGED <<ui, band, cfg, PYFTDI_BACKEND, ctor, engine_vars>>

\* manager.close()
FtdiClose ==
    \E close_fault \in SUBSET Slots :
        LET r == close(ftdi_manager, close_fault)
        IN  /\ ftdi_manager' = r.self
            /\ ftdi_io' = [ NoIo("close", ftdi_manager) EXCEPT
                              !.releases     = r.releases,
                              !.close_faulty = close_fault \cap Range(r.releases),
                              !.failed_before = ftdi_io.failed_ever,
                              !.failed_ever   = ftdi_io.failed_ever ]
            /\ UNCHANGED <<ui, band, cfg, PYFTDI_BACKEND, ctor, engine_vars>>

\* manager.get_device_urls()
FtdiGetDeviceUrls ==
    /\ ftdi_io' = [ NoIo("get_device_urls", ftdi_manager) EXCEPT
                      !.urls        = get_device_urls(ftdi_manager),
                      !.failed_before = ftdi_io.failed_ever,
                      !.failed_ever   = ftdi_io.failed_ever ]
    /\ UNCHANGED <<ui, band, cfg, PYFTDI_BACKEND, ftdi_manager, ctor, engine_vars>>

(* Strings that are converted: sequences of one-character strings *)

DigitValue == [c \in {"0","1","2","3","4","5","6","7","8","9"} |->
                 CASE c = "0" -> 0 [] c = "1" -> 1 [] c = "2" -> 2 [] c = "3" -> 3
                   [] c = "4" -> 4 [] c = "5" -> 5 [] c = "6" -> 6 [] c = "7" -> 7
                   [] c = "8" -> 8 [] c = "9" -> 9]

IsDigits(str) == Len(str) > 0 /\ \A k \in 1..Len(str) : str[k] \in DOMAIN DigitValue

RECURSIVE DigitsValue(_)
DigitsValue(str) ==
    IF str = << >> THEN 0
    ELSE 10 * DigitsValue(SubSeq(str, 1, Len(str) - 1)) + DigitValue[str[Len(str)]]

\* int(str): [ok |-> FALSE] stands for ValueError
ParseInt(str) ==
    IF Len(str) > 1 /\ str[1] = "-" /\ IsDigits(Tail(str))
    THEN [ ok |-> TRUE, value |-> 0 - DigitsValue(Tail(str)) ]
    ELSE IF IsDigits(str) THEN [ ok |-> TRUE, value |-> DigitsValue(str) ]
    ELSE [ ok |-> FALSE, value |-> 0 ]

\* str(n) of a natural number
RECURSIVE Digits(_)
Digits(n) ==
    LET last == <<"0", "1", "2", "3", "4", "5", "6", "7", "8", "9">>[(n % 10) + 1]
    IN  IF n < 10 THEN <<last>> ELSE Append(Digits(n \div 10), last)

\* a conversion to the nearest integer
RoundHundredths(f) == (f + 50) \div 100

\* int(x) of a float given in hundredths: truncation toward zero
TruncHundredths(f) == IF f >= 0 THEN f \div 100 ELSE 0 - ((0 - f) \div 100)

(* band_helpers *)

\* a BCD value that counts the bands in ascending order
BcdByPosition(frequency) ==
    (Cardinality({ b \in {2000, 4000, 6000, 8000, 11000, 15000, 19000, 22000, 25000,
                          30000, 60000} : b <= frequency }) + 1) % 12

\* a classification whose intervals include their upper end
BandNameClosedIntervals(frequency) ==
    IF frequency <= 2000 THEN "160m"
    ELSE IF frequency <= 4000 THEN "80m"
    ELSE IF frequency <= 6000 THEN "60m"
    ELSE IF frequency <= 8000 THEN "40m"
    ELSE IF frequency <= 11000 THEN "30m"
    ELSE IF frequency <= 15000 THEN "20m"
    ELSE IF frequency <= 19000 THEN "17m"
    ELSE IF frequency <= 22000 THEN "15m"
    ELSE IF frequency <= 25000 THEN "12m"
    ELSE IF frequency <= 30000 THEN "10m"
    ELSE IF frequency <= 60000 THEN "6m"
    ELSE "unknown"

get_band_name(frequency) ==
    IF frequency < 2000 THEN "160m"
    ELSE IF frequency < 4000 THEN "80m"
    ELSE IF frequency < 6000 THEN "60m"
    ELSE IF frequency < 8000 THEN "40m"
    ELSE IF frequency < 11000 THEN "30m"
    ELSE IF frequency < 15000 THEN "20m"
    ELSE IF frequency < 19000 THEN "17m"
    ELSE IF frequency < 22000 THEN "15m"
    ELSE IF frequency < 25000 THEN "12m"
    ELSE IF frequency < 30000 THEN "10m"
    ELSE IF frequency < 60000 THEN "6m"
    ELSE "unknown"

get_bcd(frequency) ==
    IF frequency < 2000 THEN 1
    ELSE IF frequency < 4000 THEN 2
    ELSE IF frequency < 6000 THEN 0
    ELSE IF frequency < 8000 THEN 3
    ELSE IF frequency < 11000 THEN 4
    ELSE IF frequency < 15000 THEN 5
    ELSE IF frequency < 19000 THEN 6
    ELSE IF frequency < 22000 THEN 7
    ELSE IF frequency < 25000 THEN 8
    ELSE IF frequency < 30000 THEN 9
    ELSE IF frequency < 60000 THEN 10
    ELSE 0

get_ag_band(frequency) ==
    IF frequency < 2000 THEN 1
    ELSE IF frequency < 4000 THEN 2
    ELSE IF frequency < 6000 THEN 11
    ELSE IF frequency < 8000 THEN 3
    ELSE IF frequency < 11000 THEN 4
    ELSE IF frequency < 15000 THEN 5
    ELSE IF frequency < 19000 THEN 6
    ELSE IF frequency < 22000 THEN 7
    ELSE IF frequency < 25000 THEN 8
    ELSE IF frequency < 30000 THEN 9
    ELSE IF frequency < 60000 THEN 10
    ELSE 1

(* band_helpers called directly *)

\* where one band ends and the next begins (lines 12-32, 46-66, 80-100)
BandEdges == {2000, 4000, 6000, 8000, 11000, 15000, 19000, 22000, 25000, 30000, 60000}

\* the integers given as frequency: a grid of 500 kHz around zero, both sides
\* of every edge, and the ends of the 32-bit range
Frequencies ==
    { 500 * k : k \in (0 - MaxGrid)..MaxGrid }
      \cup BandEdges \cup { b - 1 : b \in BandEdges }
      \cup { -2147483647, 2147483647 }

\* a frequency and no answer yet
NoBandIo(frequency) ==
    [ op |-> "init", frequency |-> frequency, name |-> "", bcd |-> -1, port |-> -1 ]

BandIdle == band = NoBandIo(0)

BandInit == \E frequency \in Frequencies : band = NoBandIo(frequency)

BandGetBandName ==
    /\ band' = [band EXCEPT !.op = "get_band_name", !.name = get_band_name(band.frequency)]
    /\ UNCHANGED <<cfg, program_vars>>

BandGetBcd ==
    /\ band' = [band EXCEPT !.op = "get_bcd", !.bcd = get_bcd(band.frequency)]
    /\ UNCHANGED <<cfg, program_vars>>

BandGetAgBand ==
    /\ band' = [band EXCEPT !.op = "get_ag_band", !.port = get_ag_band(band.frequency)]
    /\ UNCHANGED <<cfg, program_vars>>

(* config: a dictionary is a function from its keys to values, a value is its
   type and its text *)

String(text) == [ type |-> "str", repr |-> text ]

Boolean(text) == [ type |-> "bool", repr |-> text ]

Number(text) == [ type |-> "int", repr |-> text ]

\* lines 22-27
SIM_MODE_KEY == "enable_simulation_mode"

\* lines 29-36
CONFIG_SCHEMA ==
    [ logger_ip     |-> [ type |-> "str", default |-> String("127.0.0.1"), required |-> TRUE ],
      logger_udp    |-> [ type |-> "str", default |-> String("12060"), required |-> TRUE ],
      AG_1_IP       |-> [ type |-> "str", default |-> String("192.168.100.140"),
                          required |-> TRUE ],
      AG_1_UDP_Port |-> [ type |-> "str", default |-> String("9007"), required |-> TRUE ],
      AG_1_RF_Port  |-> [ type |-> "str", default |-> String("1"), required |-> TRUE ],
      enable_simulation_mode |->
                        [ type |-> "bool", default |-> Boolean("False"), required |-> FALSE ] ]

\* isinstance(value, schema["type"])
isinstance(value, type) == value.type = type

\* a validation that returns the keys of the schema only
ValidateKnownKeysOnly(config) ==
    [ key \in { k \in DOMAIN CONFIG_SCHEMA : k \in DOMAIN config \/ CONFIG_SCHEMA[k].required }
        |-> IF key \in DOMAIN config /\ isinstance(config[key], CONFIG_SCHEMA[key].type)
            THEN config[key]
            ELSE CONFIG_SCHEMA[key].default ]

\* validate_config: a key of the schema is in the result when the input has it
\* (line 93) or the schema requires it (line 104); every other key of the
\* input is copied (lines 110-114)
validate_config(config) ==
    LET from_schema == { key \in DOMAIN CONFIG_SCHEMA :
                           key \in DOMAIN config \/ CONFIG_SCHEMA[key].required }
        unknown == DOMAIN config \ DOMAIN CONFIG_SCHEMA
    IN  [ key \in from_schema \cup unknown |->
            IF key \in unknown THEN config[key]
            ELSE IF key \in DOMAIN config
            THEN IF ~isinstance(config[key], CONFIG_SCHEMA[key].type)
                 THEN CONFIG_SCHEMA[key].default
                 ELSE config[key]
            ELSE CONFIG_SCHEMA[key].default ]

\* a key the schema does not know
UnknownKey == "window_theme"

\* what a configuration file may hold under a key: a value of the type the
\* schema names, or a value of another type
FileValues(key) ==
    IF key = UnknownKey THEN { String("dark") }
    ELSE IF key = SIM_MODE_KEY THEN { Boolean("True"), String("yes") }
    ELSE IF key \in {"logger_udp", "AG_1_UDP_Port", "AG_1_RF_Port"}
    THEN { String("2"), Number("2") }
    ELSE { String("10.0.0.7"), Number("2") }

\* the dictionaries given to validate_config: every key absent or present with
\* one of its values
Configs ==
    UNION { { config \in [keys -> UNION { FileValues(k) : k \in keys }] :
                \A k \in keys : config[k] \in FileValues(k) } :
            keys \in SUBSET (DOMAIN CONFIG_SCHEMA \cup {UnknownKey}) }

\* a configuration and no answer yet
NoCfgIo(config) == [ op |-> "init", config |-> config, validated |-> config ]

ConfigIdle == cfg = NoCfgIo([ key \in {} |-> String("") ])

ConfigInit == \E config \in Configs : cfg = NoCfgIo(config)

ConfigValidate ==
    /\ cfg' = [cfg EXCEPT !.op = "validate_config", !.validated = validate_config(cfg.config)]
    /\ UNCHANGED <<band, program_vars>>

(* N1MMListener *)

\* N1MMListener.__init__
\* sockname: the address the socket in sock is bound to (sock.getsockname())
NoAddress == <<"None", 0>>

NewListener == [ sock |-> "None", sockname |-> NoAddress ]

\* socket.bind / socket.connect accept ports 0..65535 and raise OverflowError
\* (not an OSError) for any other int
PortInRange(port) == 0 <= port /\ port <= 65535

\* what the OS does in one setup_socket call: "ok", "socket_error" (socket()
\* raises OSError) or "bind_error" (settimeout/bind raises gaierror or OSError)
BindOutcomes == {"ok", "socket_error", "bind_error"}

\* N1MMListener.setup_socket.  sock: "None", "unbound" (a socket object that
\* was never bound) or "bound".  ret: "True", "False" or "raised".
setup_socket(self, ip_address, udp_port, os) ==
    IF os = "socket_error"
    THEN [ self |-> self, ret |-> "False" ]                  \* line 37 raised
    ELSE IF ~PortInRange(udp_port)
    THEN [ self |-> [self EXCEPT !.sock = "unbound", !.sockname = NoAddress],
           ret |-> "raised" ]
    ELSE IF os = "bind_error"
    THEN [ self |-> [self EXCEPT !.sock = "unbound", !.sockname = NoAddress],
           ret |-> "False" ]
    ELSE [ self |-> [self EXCEPT !.sock = "bound", !.sockname = <<ip_address, udp_port>>],
           ret |-> "True" ]

\* what receive_data returns: None (present = FALSE) or the parsed datagram,
\* of which the engine reads RadioInfo.RadioNr and RadioInfo.Freq
NoData == [ present |-> FALSE, RadioNr |-> "", has_freq |-> FALSE, Freq |-> << >> ]

\* datagrams N1MM+ may send
Datagrams ==
    { [ present |-> TRUE, RadioNr |-> "1", has_freq |-> TRUE,
        Freq |-> <<"1","4","1","5","0","0","0">> ],
      [ present |-> TRUE, RadioNr |-> "1", has_freq |-> TRUE,
        Freq |-> <<"1","8","0","0","5","0">> ],
      [ present |-> TRUE, RadioNr |-> "2", has_freq |-> TRUE,
        Freq |-> <<"7","0","1","0","0","0">> ],
      [ present |-> TRUE, RadioNr |-> "", has_freq |-> TRUE,        \* no RadioNr
        Freq |-> <<"7","0","1","0","0","0">> ],
      [ present |-> TRUE, RadioNr |-> "1", has_freq |-> FALSE, Freq |-> << >> ],
      [ present |-> TRUE, RadioNr |-> "1", has_freq |-> TRUE, Freq |-> <<"a","b","c">> ] }

\* N1MMListener.receive_data.  rx is what recvfrom and the parsers deliver on a
\* bound socket: NoData for a timeout or any handled error.  recvfrom on a
\* socket that was never bound delivers nothing.
receive_data(self, rx) ==
    IF self.sock = "None" THEN NoData
    ELSE IF self.sock = "unbound" THEN NoData
    ELSE rx

\* a close that keeps the handle when closing the socket raised
ListenerCloseKeepingOnError(self, close_raises) ==
    IF self.sock # "None"
    THEN [ self |-> IF close_raises THEN self
                    ELSE [self EXCEPT !.sock = "None", !.sockname = NoAddress],
           closes |-> 1 ]
    ELSE [ self |-> self, closes |-> 0 ]

\* N1MMListener.close: the listener after the call and the number of
\* sock.close() calls made; close_raises: sock.close() raises OSError
listener_close(self, close_raises) ==
    IF self.sock # "None"
    THEN [ self |-> [self EXCEPT !.sock = "None", !.sockname = NoAddress],
           closes |-> 1 ]                                            \* finally: line 104
    ELSE [ self |-> self, closes |-> 0 ]

(* AntennaGenius *)

\* a close that keeps the socket when closing it raised
AgCloseKeepingOnError(self, close_raises) ==
    IF self.socket # "None"
    THEN [ self |-> IF close_raises THEN self ELSE [self EXCEPT !.socket = "None"],
           closes |-> 1 ]
    ELSE [ self |-> self, closes |-> 0 ]

\* AntennaGenius.close: the client after the call and the number of
\* socket.close() calls made; close_raises: socket.close() raises
antenna_genius_close(self, close_raises) ==
    IF self.socket # "None"
    THEN [ self |-> [self EXCEPT !.socket = "None"], closes |-> 1 ]   \* finally: line 136
    ELSE [ self |-> self, closes |-> 0 ]

\* AntennaGenius.__init__; status_callback: whether a callback is installed
NewAntennaGenius(status_callback) ==
    [ status_callback      |-> status_callback,
      socket               |-> "None",
      command_counter      |-> 0,
      last_connection_time |-> 0,
      connection_address   |-> <<"None", 0>> ]

\* what the network does in one set_antenna call, if asked
ConnectOutcomes == {"ok", "gaierror", "timeout", "refused", "oserror"}
SendOutcomes == {"ok", "timeout", "oserror"}
NetOutcomes == [ connect : ConnectOutcomes, send : SendOutcomes ]

\* the status message of each handler (lines 92-126)
FailureMessage(kind) ==
    CASE kind = "gaierror" -> "AG Comm Failure! Address error"
      [] kind = "timeout"  -> "AG Comm Failure! Connection timeout"
      [] kind = "refused"  -> "AG Comm Failure! Connection refused"
      [] OTHER             -> "AG Comm Failure! Socket error"

\* if self.status_callback: self.status_callback(message)
Notify(self, message) == IF self.status_callback THEN <<message>> ELSE << >>

\* a sequence tag that is not wrapped
NextCounterNoWrap(command_counter) == command_counter + 1

\* line 44
NextCounter(command_counter) == (command_counter + 1) % 100

\* handlers that report the failure and keep the socket
AgFailedKeepingSocket(self, kind, connects, closes) ==
    [ self     |-> self,
      ret      |-> "False",
      notified |-> Notify(self, FailureMessage(kind)),
      command  |-> << >>,
      connects |-> connects,
      closes   |-> closes ]

\* handlers that drop the socket only where they have a callback to tell
AgFailedOnlyWithCallback(self, kind, connects, closes) ==
    [ self     |-> IF self.status_callback THEN [self EXCEPT !.socket = "None"] ELSE self,
      ret      |-> "False",
      notified |-> Notify(self, FailureMessage(kind)),
      command  |-> << >>,
      connects |-> connects,
      closes   |-> closes ]

\* the except handlers of set_antenna
AgFailed(self, kind, connects, closes) ==
    [ self     |-> [self EXCEPT !.socket = "None"],
      ret      |-> "False",
      notified |-> Notify(self, FailureMessage(kind)),
      command  |-> << >>,
      connects |-> connects,
      closes   |-> closes ]

\* AntennaGenius.set_antenna.  socket: "None", "connected" or "unconnected" (a
\* socket object whose connect did not complete).  ret: "True", "False" or
\* "raised".  notified: the messages handed to the status callback.  command:
\* the command sent, as <<tag, radio_nr, antenna_port>>.  connects: connect()
\* calls made; closes: close() calls made.
set_antenna(self, ip_address, tcp_port, radio_nr, antenna_port, current_time, net) ==
    LET counted == [self EXCEPT !.command_counter = NextCounter(@)]
        command == <<counted.command_counter, radio_nr, antenna_port>>
        current_address == <<ip_address, tcp_port>>
        should_reconnect ==
            \/ counted.socket = "None"
            \/ counted.connection_address # current_address
            \/ (current_time - counted.last_connection_time) > 30
        closes == IF should_reconnect /\ counted.socket # "None" THEN 1 ELSE 0
        dropped == IF should_reconnect THEN [counted EXCEPT !.socket = "None"] ELSE counted
    IN  IF dropped.socket = "None"
        THEN IF ~PortInRange(tcp_port)
             THEN [ self     |-> [dropped EXCEPT !.socket = "unconnected"],
                    ret      |-> "raised",          \* OverflowError from connect
                    notified |-> << >>,
                    command  |-> << >>,
                    connects |-> 1,
                    closes   |-> closes ]
             ELSE IF net.connect # "ok"
             THEN AgFailed(dropped, net.connect, 1, closes)
             ELSE IF net.send # "ok"
             THEN AgFailed(dropped, net.send, 1, closes)
             ELSE [ self     |-> [dropped EXCEPT !.socket = "connected",
                                                 !.connection_address = current_address,
                                                 !.last_connection_time = current_time],
                    ret      |-> "True",
                    notified |-> Notify(self, "AG Message Delivered!"),
                    command  |-> command,
                    connects |-> 1,
                    closes   |-> closes ]
        ELSE IF dropped.socket = "unconnected"
        THEN AgFailed(dropped, "oserror", 0, closes)      \* sendall: not connected
        ELSE IF net.send # "ok"
        THEN AgFailed(dropped, net.send, 0, closes)
        ELSE [ self     |-> dropped,
               ret      |-> "True",
               notified |-> Notify(self, "AG Message Delivered!"),
               command  |-> command,
               connects |-> 0,
               closes   |-> closes ]

(* AntennaGenius and N1MMListener called directly *)

\* the observation before any call
NoAgIo0 == [ op |-> "none", ret |-> "none", prev_ret |-> "none" ]

\* the observation of a call on the client that did nothing; before: the
\* observation of the call before it
NoAgIo(op, self, before) ==
    [ op           |-> op,
      pre          |-> self,              \* the client when the call was made
      prev_op      |-> before.op,
      prev_ret     |-> IF before.op = "set_antenna"     \* of the last set_antenna before
                       THEN before.ret ELSE before.prev_ret,
      target       |-> <<"None", 0>>,
      at           |-> 0,                 \* time.time() in the call
      net          |-> [connect |-> "ok", send |-> "ok"],
      ret          |-> "none",
      notified     |-> << >>,
      command      |-> << >>,
      connects     |-> 0,
      closes       |-> 0,
      close_raises |-> FALSE ]

\* the observation of set_antenna on self with result r
AgCallIo(self, before, target, current_time, net, r) ==
    [ NoAgIo("set_antenna", self, before) EXCEPT
        !.target = target, !.at = current_time, !.net = net, !.ret = r.ret,
        !.notified = r.notified, !.command = r.command, !.connects = r.connects,
        !.closes = r.closes ]

\* the twin client and what its last call did
NoAgTwin(self) ==
    [ self |-> self, ret |-> "none", notified |-> << >>, command |-> << >>,
      connects |-> 0, closes |-> 0 ]

AgTwinIo(r) ==
    [ self |-> r.self, ret |-> r.ret, notified |-> r.notified, command |-> r.command,
      connects |-> r.connects, closes |-> r.closes ]

\* (ip_address, tcp_port) arguments of set_antenna
AgTargets ==
    { <<"192.168.100.140", 9007>>, <<"192.168.100.141", 9007>>, <<"192.168.100.140", 70000>> }

\* antenna_port arguments of set_antenna
AntennaPorts == {1, 11}

\* the network's answers, a send failure only where the connect succeeds
AgNetOutcomes == { net \in NetOutcomes : net.send # "ok" => net.connect = "ok" }

\* set_antenna(target, "1", antenna_port), on the client and on its twin
AgCall(targets, antenna_ports, nets, limit) ==
    /\ calls < limit
    /\ \E target \in targets, antenna_port \in antenna_ports, net \in nets :
          LET r == set_antenna(antenna_genius, target[1], target[2], "1", antenna_port, now, net)
              q == set_antenna(ag_twin.self, target[1], target[2], "1", antenna_port, now, net)
          IN  /\ antenna_genius' = r.self
              /\ ag_io' = AgCallIo(antenna_genius, ag_io, target, now, net, r)
              /\ ag_twin' = AgTwinIo(q)
    /\ calls' = calls + 1
    /\ UNCHANGED <<ui, band, cfg, PYFTDI_BACKEND, ctor, ftdi_manager, ftdi_io, n1mm_listener, settings,
                   is_active, radio_freq, now, tick, n1mm_io>>

AgSetAntenna == AgCall(AgTargets, AntennaPorts, AgNetOutcomes, MaxAgCalls)

\* one command after the other to one appliance that answers or refuses
AgNextCommand ==
    AgCall({<<"192.168.100.140", 9007>>}, {1},
           {net \in NetOutcomes : net.connect \in {"ok", "refused"} /\ net.send = "ok"},
           MaxCommands)

\* client.close(), on the client and on its twin
AgClose ==
    /\ calls < MaxAgCalls
    /\ \E close_raises \in BOOLEAN :
          LET r == antenna_genius_close(antenna_genius, close_raises)
              q == antenna_genius_close(ag_twin.self, close_raises)
          IN  /\ antenna_genius' = r.self
              /\ ag_io' = [ NoAgIo("close", antenna_genius, ag_io) EXCEPT
                              !.closes = r.closes,
                              !.close_raises = close_raises /\ r.closes > 0 ]
              /\ ag_twin' = [ NoAgTwin(q.self) EXCEPT !.closes = q.closes ]
    /\ calls' = calls + 1
    /\ UNCHANGED <<ui, band, cfg, PYFTDI_BACKEND, ctor, ftdi_manager, ftdi_io, n1mm_listener, settings,
                   is_active, radio_freq, now, tick, n1mm_io>>

\* the observation before any call on the listener
NoN1mmIo0 == [ op |-> "none" ]

\* the observation of a call on the listener that did nothing
NoN1mmIo(op, self, before) ==
    [ op           |-> op,
      pre          |-> self,
      prev_op      |-> before.op,
      udp_port     |-> 0,
      os           |-> "ok",
      ret          |-> "none",
      data         |-> NoData,
      closes       |-> 0,
      close_raises |-> FALSE ]

\* udp_port arguments of setup_socket
UdpPorts == {12060, 12061, 70000}

\* listener.setup_socket("127.0.0.1", udp_port)
N1mmSetupSocket ==
    /\ \E udp_port \in UdpPorts, os \in BindOutcomes :
          LET r == setup_socket(n1mm_listener, "127.0.0.1", udp_port, os)
          IN  /\ n1mm_listener' = r.self
              /\ n1mm_io' = [ NoN1mmIo("setup_socket", n1mm_listener, n1mm_io) EXCEPT
                                !.udp_port = udp_port, !.os = os, !.ret = r.ret ]
    /\ UNCHANGED <<ui, band, cfg, PYFTDI_BACKEND, ctor, ftdi_manager, ftdi_io, antenna_genius, settings,
                   is_active, radio_freq, now, tick, calls, ag_io, ag_twin>>

\* listener.receive_data()
N1mmReceiveData ==
    /\ \E rx \in Datagrams \cup {NoData} :
          n1mm_io' = [ NoN1mmIo("receive_data", n1mm_listener, n1mm_io) EXCEPT
                         !.data = receive_data(n1mm_listener, rx) ]
    /\ UNCHANGED <<ui, band, cfg, PYFTDI_BACKEND, ctor, ftdi_manager, ftdi_io, n1mm_listener, antenna_genius,
                   settings, is_active, radio_freq, now, tick, calls, ag_io, ag_twin>>

\* listener.close()
N1mmClose ==
    /\ \E close_raises \in BOOLEAN :
          LET r == listener_close(n1mm_listener, close_raises)
          IN  /\ n1mm_listener' = r.self
              /\ n1mm_io' = [ NoN1mmIo("close", n1mm_listener, n1mm_io) EXCEPT
                                !.closes = r.closes,
                                !.close_raises = close_raises /\ r.closes > 0 ]
    /\ UNCHANGED <<ui, band, cfg, PYFTDI_BACKEND, ctor, ftdi_manager, ftdi_io, antenna_genius, settings,
                   is_active, radio_freq, now, tick, calls, ag_io, ag_twin>>

(* DecoderEngine *)

DEFAULT_CONFIG ==
    [ logger_ip     |-> "127.0.0.1",
      logger_udp    |-> <<"1","2","0","6","0">>,
      AG_1_IP       |-> "192.168.100.140",
      AG_1_UDP_Port |-> <<"9","0","0","7">>,
      AG_1_RF_Port  |-> "1" ]

\* what the user may have typed in the port fields when switch() reads them
LoggerPortEntries == { <<"1","2","0","6","0">>, <<"7","0","0","0","0">>, <<"a","b","c">> }
AgPortEntries == { <<"9","0","0","7">>, <<"7","0","0","0","0">>, <<"a","b","c">> }

\* DecoderUI.update_settings_from_ui
UiSettings ==
    {[DEFAULT_CONFIG EXCEPT !.logger_udp = p] : p \in LoggerPortEntries}
      \cup {[DEFAULT_CONFIG EXCEPT !.AG_1_UDP_Port = p] : p \in AgPortEntries}

\* the engine object
Engine ==
    [ settings       |-> settings,
      is_active      |-> is_active,
      radio_freq     |-> radio_freq,
      ftdi_manager   |-> ftdi_manager,
      antenna_genius |-> antenna_genius,
      n1mm_listener  |-> n1mm_listener ]

\* the observation of an engine call that did nothing
NoTick(op, self) ==
    [ op             |-> op,
      pre            |-> [ is_active  |-> self.is_active,
                           sock       |-> self.n1mm_listener.sock,
                           settings   |-> self.settings,
                           radio_freq |-> self.radio_freq ],
      bind_attempted |-> FALSE,
      bind_port      |-> 0,
      bind_ret       |-> "none",
      polled         |-> FALSE,
      sample         |-> NoData,
      accepted       |-> FALSE,     \* a Radio-1 sample with a valid Freq
      ag_called      |-> FALSE,
      ag_port        |-> 0,
      ag_band        |-> 0,
      ag_ret         |-> "none",
      bcd_called     |-> FALSE,
      bcd_value      |-> 0,
      returned       |-> FALSE,     \* FALSE: the call returned None
      freq           |-> 0,
      ag_ip          |-> "",
      ag_radio       |-> "",
      events         |-> << >>,     \* what the call did, in order
      sock_closes    |-> 0,         \* n1mm_listener.close() calls made
      monitoring     |-> "none" ]   \* the last of start_monitoring and stop_monitoring

\* a call of update_frequency that returns None
ReturnsNone(self, t) ==
    [ self |-> self, tick |-> t, wrote |-> FALSE,
      w |-> write_bcd(self.ftdi_manager, 0, NoFault, ftd2xx_mode) ]

\* lines 92-97: int() of the logger port setting, 12060 on ValueError
LoggerPort(settings_) ==
    LET port == ParseInt(settings_.logger_udp)
    IN  IF port.ok THEN port.value ELSE 12060

\* a port taken from the setting without the fallback of lines 119-121
AgTcpPortNoDefault(settings_) == ParseInt(settings_.AG_1_UDP_Port).value

\* lines 117-121: int() of the switch port setting, 9007 on ValueError
AgTcpPort(settings_) ==
    LET port == ParseInt(settings_.AG_1_UDP_Port)
    IN  IF port.ok THEN port.value ELSE 9007

\* the filter bank written before the frequency is recorded and the switch is set
WriteBeforeSwitch == <<"write_bcd", "record", "set_antenna">>

\* the statements of lines 112, 126 and 130 in the order they are executed
DispatchOrder == <<"record", "set_antenna", "write_bcd">>

\* update_frequency, lines 115-132: both dispatches for the frequency freq
\* (in hundredths of kHz)
Dispatch(self, t, freq, current_time, net, fault) ==
    LET heard == [self EXCEPT !.radio_freq = freq]
        ag_tcp_port == AgTcpPort(self.settings)
        antenna_port == get_ag_band(TruncHundredths(freq))
        ag == set_antenna(self.antenna_genius, self.settings.AG_1_IP, ag_tcp_port,
                          self.settings.AG_1_RF_Port, antenna_port, current_time, net)
        tuned == [heard EXCEPT !.antenna_genius = ag.self]
        bcd_value == get_bcd(TruncHundredths(freq))
        w == write_bcd(self.ftdi_manager, bcd_value, fault, ftd2xx_mode)
        called == [t EXCEPT !.accepted = TRUE, !.ag_called = TRUE, !.ag_port = ag_tcp_port,
                            !.ag_band = antenna_port, !.ag_ret = ag.ret, !.freq = freq,
                            !.ag_ip = self.settings.AG_1_IP,
                            !.ag_radio = self.settings.AG_1_RF_Port,
                            !.events = @ \o SubSeq(DispatchOrder, 1, 2)]
    IN  IF ag.ret = "raised"
        THEN ReturnsNone(tuned, called)                \* caught at line 143
        ELSE [ self  |-> [tuned EXCEPT !.ftdi_manager = w.self],
               tick  |-> [called EXCEPT !.bcd_called = TRUE, !.bcd_value = bcd_value,
                                        !.returned = TRUE,
                                        !.events = t.events \o DispatchOrder],
               wrote |-> TRUE,
               w     |-> w ]

\* a test that takes the sample of any radio
AnyRadio(radio_dict) == radio_dict.present

\* line 107: radio_dict and radio_dict.get("RadioInfo", {}).get("RadioNr") == "1"
IsRadioOne(radio_dict) == radio_dict.present /\ radio_dict.RadioNr = "1"

\* update_frequency, lines 105-146: poll and, for a Radio-1 sample, dispatch
Poll(self, t, rx, current_time, net, fault) ==
    LET radio_dict == receive_data(self.n1mm_listener, rx)
        polled == [t EXCEPT !.polled = TRUE, !.sample = radio_dict,
                            !.events = Append(@, "poll")]
        freq == ParseInt(radio_dict.Freq)
    IN  IF ~IsRadioOne(radio_dict) THEN ReturnsNone(self, polled)
        ELSE IF ~radio_dict.has_freq THEN ReturnsNone(self, polled)       \* KeyError
        ELSE IF ~freq.ok THEN ReturnsNone(self, polled)                   \* ValueError
        ELSE Dispatch(self, polled, freq.value, current_time, net, fault)

\* a test that lets every tick through
NeverInactive(self) == FALSE

\* line 86
Inactive(self) == ~self.is_active

\* DecoderEngine.update_frequency
update_frequency(self, current_time, os, rx, net, fault) ==
    LET t == NoTick("update_frequency", self)
        logger_port == LoggerPort(self.settings)
        bind == setup_socket(self.n1mm_listener, self.settings.logger_ip, logger_port, os)
        tried == [t EXCEPT !.bind_attempted = TRUE, !.bind_port = logger_port,
                           !.bind_ret = bind.ret, !.events = Append(@, "bind")]
        set_up == [self EXCEPT !.n1mm_listener = bind.self]
    IN  IF Inactive(self) THEN ReturnsNone(self, t)
        ELSE IF self.n1mm_listener.sock = "None"
        THEN IF bind.ret # "True" THEN ReturnsNone(set_up, tried)
             ELSE Poll(set_up, tried, rx, current_time, net, fault)
        ELSE Poll(self, t, rx, current_time, net, fault)

\* DecoderEngine.get_current_band: get_band_name(self.radio_freq) on the float
\* that was recorded; with radio_freq in hundredths, x / 100 < edge is
\* x < 100 * edge
get_current_band(self) ==
    LET frequency == self.radio_freq
    IN  IF frequency < 100 * 2000 THEN "160m"
        ELSE IF frequency < 100 * 4000 THEN "80m"
        ELSE IF frequency < 100 * 6000 THEN "60m"
        ELSE IF frequency < 100 * 8000 THEN "40m"
        ELSE IF frequency < 100 * 11000 THEN "30m"
        ELSE IF frequency < 100 * 15000 THEN "20m"
        ELSE IF frequency < 100 * 19000 THEN "17m"
        ELSE IF frequency < 100 * 22000 THEN "15m"
        ELSE IF frequency < 100 * 25000 THEN "12m"
        ELSE IF frequency < 100 * 30000 THEN "10m"
        ELSE IF frequency < 100 * 60000 THEN "6m"
        ELSE "unknown"

\* DecoderEngine.start_monitoring
start_monitoring(self) == [self EXCEPT !.is_active = TRUE]

\* a stop that leaves the flag as it is
StopKeepsActive(self) == self

\* DecoderEngine.stop_monitoring
stop_monitoring(self) == [self EXCEPT !.is_active = FALSE]

\* DecoderUI.switch
switch(self, entries) ==
    LET updated == [self EXCEPT !.settings = entries]
    IN  IF updated.is_active
        THEN [ self |-> stop_monitoring(updated), monitoring |-> "stop_monitoring" ]
        ELSE [ self |-> start_monitoring(updated), monitoring |-> "start_monitoring" ]

\* DecoderEngine.shutdown
shutdown(self, close_fault, sock_close_raises) ==
    LET released == IF self.n1mm_listener.sock # "None"
                    THEN [self EXCEPT !.n1mm_listener =
                                          listener_close(@, sock_close_raises).self]
                    ELSE self
        c == close(self.ftdi_manager, close_fault)
    IN  [ self |-> [released EXCEPT !.ftdi_manager = c.self], c |-> c,
          sock_closes |-> IF self.n1mm_listener.sock # "None" THEN 1 ELSE 0 ]

\* DecoderEngine.__init__ around the manager, before any call
NewEngine(manager) ==
    [ settings       |-> DEFAULT_CONFIG,
      is_active      |-> FALSE,
      radio_freq     |-> 0,
      ftdi_manager   |-> manager,
      antenna_genius |-> NewAntennaGenius(TRUE),
      n1mm_listener  |-> NewListener ]

EngineIdle ==
    /\ settings = DEFAULT_CONFIG
    /\ is_active = FALSE
    /\ radio_freq = 0
    /\ antenna_genius = NewAntennaGenius(TRUE)
    /\ n1mm_listener = NewListener
    /\ now = StartTime
    /\ tick = NoTick("init", NewEngine(ftdi_manager))
    /\ calls = 0
    /\ ag_io = NoAgIo("init", NewAntennaGenius(TRUE), NoAgIo0)
    /\ ag_twin = NoAgTwin(NewAntennaGenius(FALSE))
    /\ n1mm_io = NoN1mmIo("init", NewListener, NoN1mmIo0)

\* the manager of the engine: forced simulation, or MaxDiscovered adapters that
\* all accept the pyftdi configuration, device 0 configured directly or not
EngineDrivers ==
    { d \in DriverBehaviours :
        /\ Consulted(d)
        /\ d.has_backend
        /\ ~d.forced => /\ d.gpio_raise_at = 3
                        /\ d.discovered = MaxDiscovered
                        /\ ~d.ft_opened
                        /\ d.pyftdi = [i \in Slots |-> "ok"] }

\* write failures during engine ticks
EngineWriteFaults == { NoFault, [i \in Slots |-> "OSError"] }

\* answers of the network to set_antenna during engine ticks: delivered, connection
\* refused, send timed out
EngineNetOutcomes ==
    { net \in NetOutcomes :
        \/ net.connect = "ok" /\ net.send \in {"ok", "timeout"}
        \/ net.connect = "refused" /\ net.send = "ok" }

\* DecoderEngine.__init__, lines 47-52: the simulation_mode argument, or True
\* when the setting enable_simulation_mode is true
EngineSimulationMode(simulation_mode, enable_simulation_mode) ==
    IF enable_simulation_mode THEN TRUE ELSE simulation_mode

\* DecoderEngine.simulation_mode: assigned in __init__, handed to the manager
\* at line 58 and never assigned again
engine_simulation_mode == ctor.forced

EngineInit ==
    /\ PYFTDI_BACKEND = "ftd2xx"
    /\ \E d \in EngineDrivers, simulation_mode \in BOOLEAN, enable_simulation_mode \in BOOLEAN :
          /\ d.forced = EngineSimulationMode(simulation_mode, enable_simulation_mode)
          /\ ctor = d
          /\ ftdi_manager = FTDIDeviceManager_init(d, ftd2xx_mode)
          /\ ftdi_io = NoIo("init", NewManager(d.forced))
    /\ EngineIdle

\* the engine object after the call
SetEngine(e) ==
    /\ settings' = e.settings
    /\ is_active' = e.is_active
    /\ radio_freq' = e.radio_freq
    /\ ftdi_manager' = e.ftdi_manager
    /\ antenna_genius' = e.antenna_genius
    /\ n1mm_listener' = e.n1mm_listener

\* DecoderUI.switch with the entries of the settings tabs drawn from a set
EngineSwitchTo(ui_settings, limit) ==
    /\ calls < limit
    /\ \E entries \in ui_settings :
          LET r == switch(Engine, entries)
          IN  /\ SetEngine(r.self)
              /\ tick' = [ NoTick("switch", Engine) EXCEPT !.monitoring = r.monitoring ]
    /\ calls' = calls + 1
    /\ UNCHANGED <<ui, band, cfg, PYFTDI_BACKEND, ctor, ftdi_io, now, net_io>>

\* the user presses the Start/Stop button
EngineSwitch == EngineSwitchTo(UiSettings, MaxCalls)

\* a caller of the engine starts monitoring, whatever the flag is
EngineStartMonitoring ==
    /\ calls < MaxCalls
    /\ SetEngine(start_monitoring(Engine))
    /\ tick' = [ NoTick("start_monitoring", Engine) EXCEPT !.monitoring = "start_monitoring" ]
    /\ calls' = calls + 1
    /\ UNCHANGED <<ui, band, cfg, PYFTDI_BACKEND, ctor, ftdi_io, now, net_io>>

\* a caller of the engine stops monitoring, whatever the flag is
EngineStopMonitoring ==
    /\ calls < MaxCalls
    /\ SetEngine(stop_monitoring(Engine))
    /\ tick' = [ NoTick("stop_monitoring", Engine) EXCEPT !.monitoring = "stop_monitoring" ]
    /\ calls' = calls + 1
    /\ UNCHANGED <<ui, band, cfg, PYFTDI_BACKEND, ctor, ftdi_io, now, net_io>>

\* engine.update_frequency() in an environment: what the OS answers to the
\* bind, what N1MM+ sends, what the network and the adapters answer; the
\* answers are drawn only where the call asks for them
EngineTick(bind_outcomes, datagrams, net_outcomes, write_faults, limit) ==
    /\ calls < limit
    /\ \E os \in (IF is_active /\ n1mm_listener.sock = "None" THEN bind_outcomes ELSE {"ok"}),
          rx \in (IF is_active THEN datagrams \cup {NoData} ELSE {NoData}) :
         \E net \in (IF rx.present /\ rx.RadioNr = "1" THEN net_outcomes
                     ELSE {[connect |-> "ok", send |-> "ok"]}),
            fault \in (IF rx.present /\ rx.RadioNr = "1" THEN write_faults
                       ELSE {NoFault}) :
            LET r == update_frequency(Engine, now, os, rx, net, fault)
            IN  /\ SetEngine(r.self)
                /\ tick' = [ r.tick EXCEPT !.monitoring = tick.monitoring ]
                /\ ftdi_io' = IF r.wrote
                              THEN WriteIo(ftdi_manager, r.tick.bcd_value, fault, r.w, ftdi_io)
                              ELSE ftdi_io
    /\ calls' = calls + 1
    /\ UNCHANGED <<ui, band, cfg, PYFTDI_BACKEND, ctor, now, net_io>>

\* the periodic tick (DecoderUI.freq_update)
EngineUpdateFrequency ==
    EngineTick(BindOutcomes, Datagrams, EngineNetOutcomes, EngineWriteFaults, MaxCalls)

\* entries of the Freq Data tab with which N1MM+ can be heard: the default,
\* another port, another address
RebindSettings ==
    { DEFAULT_CONFIG,
      [DEFAULT_CONFIG EXCEPT !.logger_udp = <<"1","2","0","6","1">>],
      [DEFAULT_CONFIG EXCEPT !.logger_ip = "0.0.0.0"] }

\* the Start/Stop button pressed after the entries were edited
EngineRebindSwitch == EngineSwitchTo(RebindSettings, MaxRebindCalls)

\* the periodic tick where every bind succeeds and the switch and the adapters
\* answer
EngineRebindTick ==
    EngineTick({"ok"},
               {[ present |-> TRUE, RadioNr |-> "1", has_freq |-> TRUE,
                  Freq |-> <<"1","4","1","5","0","0","0">> ]},
               {[connect |-> "ok", send |-> "ok"]}, {NoFault}, MaxRebindCalls)

\* Freq values around every band edge: the last hundredth below it, the edge,
\* and the last hundredth of its first kHz
SampleFreqs ==
    UNION { {100 * b - 1, 100 * b, 100 * b + 99} :
            b \in {2000, 4000, 6000, 8000, 11000, 15000, 19000, 22000, 25000, 30000, 60000} }
      \cup {0, 99}

\* the Radio-1 datagrams that carry them
SampleDatagrams ==
    { [ present |-> TRUE, RadioNr |-> "1", has_freq |-> TRUE, Freq |-> Digits(F) ] :
      F \in SampleFreqs }

\* the Start/Stop button with the default entries
EngineSampleSwitch == EngineSwitchTo({DEFAULT_CONFIG}, MaxSampleCalls)

\* the periodic tick where the bind succeeds and the switch and the adapters
\* answer
EngineSampleTick ==
    EngineTick({"ok"}, SampleDatagrams, {[connect |-> "ok", send |-> "ok"]}, {NoFault},
               MaxSampleCalls)

\* engine.shutdown()
EngineShutdownWithin(limit) ==
    /\ calls < limit
    /\ \E close_fault \in {{}, Slots}, sock_close_raises \in BOOLEAN :
          LET r == shutdown(Engine, close_fault, sock_close_raises)
          IN  /\ SetEngine(r.self)
              /\ tick' = [ NoTick("shutdown", Engine) EXCEPT
                             !.sock_closes = r.sock_closes,
                             !.monitoring  = tick.monitoring ]
              /\ ftdi_io' = [ NoIo("close", ftdi_manager) EXCEPT
                                !.releases     = r.c.releases,
                                !.close_faulty = close_fault \cap Range(r.c.releases),
                                !.failed_before = ftdi_io.failed_ever,
                                !.failed_ever   = ftdi_io.failed_ever ]
    /\ calls' = calls + 1
    /\ UNCHANGED <<ui, band, cfg, PYFTDI_BACKEND, ctor, now, net_io>>

\* the user closes the window (DecoderUI.on_closing)
EngineShutdown == EngineShutdownWithin(MaxCalls)

\* time passes between calls: up to the staleness threshold of set_antenna
\* (line 62), or beyond it
Delays == {30, 31}

Elapse ==
    /\ \E dt \in Delays :
          /\ now + dt <= StartTime + MaxElapsed
          /\ now' = now + dt
    /\ UNCHANGED <<ui, band, cfg, PYFTDI_BACKEND, ctor, ftdi_manager, ftdi_io, n1mm_listener,
                   antenna_genius, settings, is_active, radio_freq, tick, calls, net_io>>

(* DecoderUI: the handlers that Tk's main loop runs, one at a time.  after:
   freq_update callbacks waiting in the timer queue; running: freq_update
   calls in progress; entered: the number of engine calls made when the
   running freq_update began; destroyed: window.destroy() was called *)

\* DecoderUI.__init__, line 56: self.window.after(100, self.freq_update)
UiInit == ui = [ after |-> 1, running |-> 0, entered |-> 0, destroyed |-> FALSE ]

\* a handler that schedules two further ticks
ScheduleTwice(ui_) == [ui_ EXCEPT !.after = @ + 2, !.running = 0]

\* line 250: self.window.after(500, self.freq_update), and the return
ScheduleNext(ui_) == [ui_ EXCEPT !.after = @ + 1, !.running = 0]

\* on_closing has called engine.shutdown() and not yet window.destroy()
Closing == tick.op = "shutdown" /\ ~ui.destroyed

\* the main loop is between two handlers
MainLoopIdle == ui.running = 0 /\ ~Closing /\ ~ui.destroyed

\* a timer expires and the main loop calls freq_update
UiTimerFires ==
    /\ MainLoopIdle
    /\ ui.after > 0
    /\ ui' = [ui EXCEPT !.after = @ - 1, !.running = @ + 1, !.entered = calls]
    /\ UNCHANGED <<band, cfg, PYFTDI_BACKEND, ftdi_manager, ftdi_io, ctor, n1mm_listener,
                   antenna_genius, settings, is_active, radio_freq, now, tick, calls,
                   net_io>>

\* freq_update, line 243: new_freq = self.engine.update_frequency()
UiUpdateFrequency ==
    /\ ui.running > 0
    /\ calls = ui.entered
    /\ EngineTick(BindOutcomes, Datagrams, EngineNetOutcomes, {NoFault}, MaxUiCalls)

\* freq_update, lines 246-250: the label, the next timer, and the return
UiScheduleNext ==
    /\ ui.running > 0
    /\ calls > ui.entered
    /\ ui' = ScheduleNext(ui)
    /\ UNCHANGED <<band, cfg, PYFTDI_BACKEND, ftdi_manager, ftdi_io, ctor, n1mm_listener,
                   antenna_genius, settings, is_active, radio_freq, now, tick, calls,
                   net_io>>

\* the Start/Stop button
UiSwitch == MainLoopIdle /\ EngineSwitchTo(UiSettings, MaxUiCalls)

\* on_closing, line 276: self.engine.shutdown()
UiOnClosing == MainLoopIdle /\ EngineShutdownWithin(MaxUiCalls)

\* on_closing, line 279: self.window.destroy() cancels the timers
UiDestroy ==
    /\ Closing
    /\ ui' = [ui EXCEPT !.after = 0, !.destroyed = TRUE]
    /\ UNCHANGED <<band, cfg, PYFTDI_BACKEND, ftdi_manager, ftdi_io, ctor, n1mm_listener,
                   antenna_genius, settings, is_active, radio_freq, now, tick, calls,
                   net_io>>

(* Specifications *)

\* the manager, called directly
InitFTDI == FtdiInit /\ EngineIdle /\ BandIdle /\ ConfigIdle /\ UiInit

NextFTDI == FtdiWriteBcd \/ FtdiClose \/ FtdiGetDeviceUrls

SpecFTDI == InitFTDI /\ [][NextFTDI]_vars

\* the AntennaGenius client, called directly, beside an idle engine in forced
\* simulation
ProgramIdle ==
    /\ PYFTDI_BACKEND = "ftd2xx"
    /\ \E d \in EngineDrivers :
          /\ d.forced
          /\ ctor = d
          /\ ftdi_manager = FTDIDeviceManager_init(d, ftd2xx_mode)
          /\ ftdi_io = NoIo("init", NewManager(d.forced))
    /\ EngineIdle
    /\ UiInit

InitNet == ProgramIdle /\ BandIdle /\ ConfigIdle

NextAG == AgSetAntenna \/ AgClose \/ Elapse

SpecAG == InitNet /\ [][NextAG]_vars

\* the client sending one command after the other
NextAGSequence == AgNextCommand

SpecAGSequence == InitNet /\ [][NextAGSequence]_vars

\* the N1MM listener, called directly
NextN1MM == N1mmSetupSocket \/ N1mmReceiveData \/ N1mmClose

SpecN1MM == InitNet /\ [][NextN1MM]_vars

\* the engine, called as the user interface calls it
Init == EngineInit /\ BandIdle /\ ConfigIdle /\ UiInit

Next ==
    \/ EngineSwitch
    \/ EngineStartMonitoring
    \/ EngineStopMonitoring
    \/ EngineUpdateFrequency
    \/ EngineShutdown
    \/ Elapse

Spec == Init /\ [][Next]_vars

\* band_helpers, called with one frequency
InitBand == ProgramIdle /\ BandInit /\ ConfigIdle

NextBand == BandGetBandName \/ BandGetBcd \/ BandGetAgBand

SpecBand == InitBand /\ [][NextBand]_vars

\* validate_config, called with one dictionary
InitConfig == ProgramIdle /\ BandIdle /\ ConfigInit

NextConfig == ConfigValidate

SpecConfig == InitConfig /\ [][NextConfig]_vars

\* the engine while the user edits the logger address and port
NextRebind == EngineRebindSwitch \/ EngineRebindTick

SpecRebind == Init /\ [][NextRebind]_vars

\* the engine hearing samples at the band edges
NextSamples == EngineSampleSwitch \/ EngineSampleTick

SpecSamples == Init /\ [][NextSamples]_vars

\* the window: the timer, the button and the close box
NextUI ==
    \/ UiTimerFires
    \/ UiUpdateFrequency
    \/ UiScheduleNext
    \/ UiSwitch
    \/ UiOnClosing
    \/ UiDestroy

SpecUI == Init /\ [][NextUI]_vars

(* Properties of FTDIDeviceManager *)

\* the manager as __init__ left it
Constructed == FTDIDeviceManager_init(ctor, ftd2xx_mode)

\* __init__ went through _discover_devices and the enumeration completed
DiscoveryRan == ~ctor.forced /\ ctor.has_backend /\ ctor.gpio_raise_at = 3

\* the discovered adapters that have a slot
DiscoveredSlots == {i \in Slots : i < ctor.discovered}

\* the driver accepts the configuration of slot i (device 0: directly, or through
\* the pyftdi fallback when the direct attempt fails)
OwnConfigurationOk(i) ==
    IF i = 0
    THEN ctor.direct = "ok" \/ (ctor.direct = "fail" /\ ctor.pyftdi[0] = "ok")
    ELSE ctor.pyftdi[i] = "ok"

\* the manager m holds an open handle for slot i
HoldsHandle(m, i) ==
    IF m.direct_mode THEN i = 0 /\ m.ft232h_device0 # "None"
    ELSE m.gpio_device[i] # "None"

\* C1: in hardware mode with several configured actuators, every write_bcd call
\* issues the hardware write to every configured actuator whose own write does
\* not fail in that call and leaves it configured; an actuator whose writes
\* never failed is still configured and still written on every later call.
C1_FilterBankIsolation ==
    /\ (ftdi_io.op = "write_bcd" /\ ~ftdi_io.pre.simulation_mode
            /\ Len(ftdi_io.pre.configured_devices) >= 2)
         => \A i \in Range(ftdi_io.pre.configured_devices) \ ftdi_io.faulty :
                /\ i \in Range(ftdi_io.writes)
                /\ i \in Range(ftdi_manager.configured_devices)
    /\ (~Constructed.simulation_mode /\ Len(Constructed.configured_devices) >= 2)
         => \A i \in Range(Constructed.configured_devices) \ ftdi_io.failed_ever :
                /\ i \in Range(ftdi_manager.configured_devices)
                /\ (ftdi_io.op = "write_bcd" /\ i \notin ftdi_io.faulty
                        => i \in Range(ftdi_io.writes))

\* C5: a call made in simulation mode leaves the manager in simulation mode
\* and issues no hardware write and no release.
C5_SimulationTerminal ==
    (ftdi_io.op \in {"write_bcd", "close", "get_device_urls"} /\ ftdi_io.pre.simulation_mode)
      => /\ ftdi_manager.simulation_mode
         /\ ftdi_io.writes = << >>
         /\ ftdi_io.releases = << >>

\* C5 witness: a write_bcd call on a manager that fell back to simulation while
\* it still holds configured controllers
C5_Witness ==
    /\ ftdi_io.op = "write_bcd"
    /\ ftdi_io.pre.simulation_mode
    /\ ~Constructed.simulation_mode
    /\ ftdi_io.pre.configured_devices # << >>
    /\ \E i \in Slots : HoldsHandle(ftdi_io.pre, i)

\* C6: after construction each discovered slot is configured exactly when its
\* own configuration succeeds, whatever happens to the other slots; with three
\* adapters and every configuration succeeding, the next write_bcd writes to
\* all three.
C6_IndependentConfiguration ==
    /\ (ftdi_io.op = "init" /\ DiscoveryRan)
         => \A i \in DiscoveredSlots :
                (i \in Range(ftdi_manager.configured_devices)) <=> OwnConfigurationOk(i)
    /\ (ftdi_io.op = "write_bcd" /\ DiscoveryRan /\ ctor.discovered >= 3
            /\ ctor.direct = "ok" /\ (\A i \in Slots : ctor.pyftdi[i] = "ok")
            /\ ftdi_io.failed_before = {} /\ ftdi_io.faulty = {})
         => Range(ftdi_io.writes) = Slots

\* C7: when discovery finds no adapter, or every discovered adapter fails
\* configuration, the constructed manager is in simulation mode and presents
\* exactly one device URL with device_count 1.
C7_ConstructionFallback ==
    (ftdi_io.op = "init" /\ DiscoveryRan
        /\ (ctor.discovered = 0 \/ \A i \in DiscoveredSlots : ~OwnConfigurationOk(i)))
      => /\ ftdi_manager.simulation_mode
         /\ Len(get_device_urls(ftdi_manager)) = 1
         /\ ftdi_manager.device_count = 1

\* C8: an actuator whose hardware write fails in a write_bcd call is not in the
\* configured set when the call returns, and no later call writes to it.
C8_FailingActuatorEvicted ==
    ftdi_io.op = "write_bcd"
      => /\ \A i \in ftdi_io.failed_ever \ ftdi_io.failed_before :
                i \notin Range(ftdi_manager.configured_devices)
         /\ \A i \in ftdi_io.failed_before : i \notin Range(ftdi_io.writes)

\* C9: an empty configured set implies simulation mode.
C9_EmptyImpliesSimulation ==
    ftdi_manager.configured_devices = << >> => ftdi_manager.simulation_mode

\* C9 witness: a write_bcd call in hardware mode emptied the configured set
C9_Witness ==
    /\ ftdi_io.op = "write_bcd"
    /\ ~ftdi_io.pre.simulation_mode
    /\ ftdi_io.pre.configured_devices # << >>
    /\ ftdi_manager.configured_devices = << >>

\* C10: on a manager constructed in hardware mode, after any write_bcd calls
\* and failures, close() calls close on the handle of every actuator that is in
\* the configured set when it is called, whichever of these closes raise.
C10_CloseReleasesConfigured ==
    (ftdi_io.op = "close" /\ ~Constructed.simulation_mode)
      => \A i \in Range(ftdi_io.pre.configured_devices) :
            HoldsHandle(ftdi_io.pre, i) => i \in Range(ftdi_io.releases)

\* C11: after construction no write_bcd, close or get_device_urls call, failing
\* or not, changes the list get_device_urls returns: it is the list __init__ left.
C11_DeviceUrlsStable ==
    /\ ftdi_manager.device_urls = Constructed.device_urls
    /\ ftdi_io.op = "get_device_urls" => ftdi_io.urls = Constructed.device_urls

\* get_device_urls is called after a write failed, and lists several adapters
C11_Witness ==
    /\ ftdi_io.op = "get_device_urls"
    /\ ftdi_io.failed_ever # {}
    /\ Len(ftdi_io.urls) >= 2
    /\ ftdi_manager.simulation_mode

\* C12: the value write_bcd hands to each hardware write is max(0, min(v, 255))
\* for the input v; an input in 0..255 is written unchanged.
C12_WriteBcdClamps ==
    ftdi_io.op = "write_bcd"
      => /\ ftdi_io.value = (IF ftdi_io.bcd_value < 0 THEN 0
                             ELSE IF ftdi_io.bcd_value > 255 THEN 255
                             ELSE ftdi_io.bcd_value)
         /\ ftdi_io.value \in 0..255

\* an out-of-range value reaches the hardware, clamped
C12_Witness ==
    /\ ftdi_io.op = "write_bcd"
    /\ ftdi_io.bcd_value < 0
    /\ Len(ftdi_io.writes) >= 2
    /\ ftdi_io.value = 0

(* Properties of DecoderEngine and N1MMListener *)

\* the datagram is a Radio-1 sample with a valid Freq
Accepted(sample) ==
    /\ sample.present
    /\ sample.RadioNr = "1"
    /\ sample.has_freq
    /\ ParseInt(sample.Freq).ok

\* the last call was a tick made while the engine was Active
ActiveTick == tick.op = "update_frequency" /\ tick.pre.is_active

\* C2: every Active tick that accepts a Radio-1 sample with a valid Freq invokes
\* set_antenna and invokes write_bcd with the BCD value computed from the sample,
\* whatever set_antenna did (success, reported failure, raised error).
C2_DualSinkIndependence ==
    (ActiveTick /\ Accepted(tick.sample))
      => /\ tick.ag_called
         /\ tick.bcd_called
         /\ tick.bcd_value = get_bcd(TruncHundredths(ParseInt(tick.sample.Freq).value))
         /\ ftdi_io.op = "write_bcd"
         /\ ftdi_io.bcd_value = tick.bcd_value

\* C3: an Active tick whose bind attempt fails neither polls nor dispatches, and
\* every Active tick made while the listener is not bound attempts the bind.
C3_BindRetry ==
    /\ (ActiveTick /\ tick.bind_attempted /\ tick.bind_ret # "True")
         => ~tick.polled /\ ~tick.ag_called /\ ~tick.bcd_called /\ ~tick.returned
    /\ (ActiveTick /\ tick.pre.sock # "bound") => tick.bind_attempted

\* C4: a failed setup_socket returns False and leaves the listener without a
\* socket; the listener holds a socket only between a successful bind and the
\* next close.
C4_ReceiverStateMachine ==
    /\ (tick.bind_attempted /\ tick.bind_ret # "True")
         => tick.bind_ret = "False" /\ n1mm_listener.sock = "None"
    /\ (tick.bind_attempted /\ tick.bind_ret = "True") => n1mm_listener.sock = "bound"
    /\ n1mm_listener.sock \in {"None", "bound"}
    /\ tick.op = "shutdown" => n1mm_listener.sock = "None"

\* C20: a tick made while the engine is Inactive returns None, calls none of
\* bind, poll, set_antenna or write_bcd, and leaves the engine's state and the
\* state of every component unchanged.
C20_InactiveTickNoOp ==
    [][ (tick'.op = "update_frequency" /\ ~is_active /\ calls' # calls)
          => /\ ~tick'.returned
             /\ ~tick'.bind_attempted
             /\ ~tick'.polled
             /\ ~tick'.ag_called
             /\ ~tick'.bcd_called
             /\ UNCHANGED <<is_active, radio_freq, settings, n1mm_listener,
                            antenna_genius, ftdi_manager, ftdi_io>> ]_vars

\* an Inactive tick after the engine has bound, connected and been stopped
C20_Witness ==
    /\ tick.op = "update_frequency"
    /\ ~tick.pre.is_active
    /\ n1mm_listener.sock = "bound"
    /\ antenna_genius.socket = "connected"
    /\ radio_freq # 0

(* Properties of AntennaGenius *)

\* the messages of the failure handlers
FailureMessages ==
    { FailureMessage(kind) : kind \in (ConnectOutcomes \cup SendOutcomes) \ {"ok"} }

\* the last call was set_antenna
AgCalled == ag_io.op = "set_antenna"

\* C21: the engine starts Inactive, is_active is true exactly when the last of
\* the start_monitoring and stop_monitoring calls was start_monitoring, and
\* update_frequency and shutdown leave is_active as it was
C21_ActiveFollowsLastCall ==
    [][ /\ (calls = 0 => ~is_active)
        /\ (is_active <=> tick.monitoring = "start_monitoring")
        /\ (is_active' <=> tick'.monitoring = "start_monitoring")
        /\ (calls' # calls /\ tick'.op \in {"update_frequency", "shutdown"}
               => is_active' = is_active) ]_vars

\* start_monitoring was called on an Active engine, then ticks and a shutdown
\* came, and the engine is Active
C21_Witness ==
    /\ tick.op = "shutdown"
    /\ tick.monitoring = "start_monitoring"
    /\ tick.pre.is_active
    /\ is_active

\* the call just made was an Active tick that polled a datagram
PolledDatagram(t) ==
    /\ t.op = "update_frequency"
    /\ t.pre.is_active
    /\ t.polled
    /\ t.sample.present

\* C22: an Active tick whose polled datagram has a RadioNr other than "1", or
\* none, returns None, calls neither set_antenna nor write_bcd, and leaves the
\* last frequency, the client and the manager as they were
C22_OtherRadioIgnored ==
    [][ (calls' # calls /\ PolledDatagram(tick') /\ tick'.sample.RadioNr # "1")
          => /\ ~tick'.returned
             /\ ~tick'.ag_called
             /\ ~tick'.bcd_called
             /\ UNCHANGED <<radio_freq, antenna_genius, ftdi_manager, ftdi_io>> ]_vars

\* a Radio-2 datagram was polled after a frequency had been recorded
C22_Witness ==
    /\ PolledDatagram(tick)
    /\ tick.sample.RadioNr = "2"
    /\ radio_freq # 0
    /\ ~tick.returned

\* the call just made was an Active tick that polled a Radio-1 sample whose
\* Freq is an integer
RadioOneSample(t) ==
    /\ PolledDatagram(t)
    /\ t.sample.RadioNr = "1"
    /\ t.sample.has_freq
    /\ ParseInt(t.sample.Freq).ok

\* C23: an Active tick whose polled sample is from Radio 1 with the integer
\* Freq F records and returns F/100, calls set_antenna with the configured
\* address, port and radio number and the antenna port of the band, and calls
\* write_bcd with the BCD nibble of the band (1415000: port 5, BCD 5)
C23_RadioOneDispatch ==
    RadioOneSample(tick) =>
        LET F == ParseInt(tick.sample.Freq).value
            port == ParseInt(settings.AG_1_UDP_Port)
        IN  /\ tick.returned
            /\ tick.freq = F
            /\ radio_freq = F
            /\ tick.ag_called
            /\ tick.ag_ip = settings.AG_1_IP
            /\ tick.ag_radio = settings.AG_1_RF_Port
            /\ (port.ok => tick.ag_port = port.value)
            /\ tick.ag_band = get_ag_band(TruncHundredths(F))
            /\ tick.bcd_called
            /\ tick.bcd_value = get_bcd(TruncHundredths(F))
            /\ (F = 1415000 => tick.ag_band = 5 /\ tick.bcd_value = 5)

\* C24: shutdown releases the listener socket and every actuator handle the
\* manager holds, from Inactive and from Active, and a shutdown that follows a
\* shutdown changes no state and issues no further release
C24_ShutdownIdempotent ==
    [][ (calls' # calls /\ tick'.op = "shutdown")
          => /\ n1mm_listener'.sock = "None"
             /\ \A i \in Slots : HoldsHandle(ftdi_manager, i)
                                    => i \in Range(ftdi_io'.releases)
             /\ (tick.op = "shutdown"
                   => /\ tick'.sock_closes = 0
                      /\ ftdi_io'.releases = << >>
                      /\ UNCHANGED <<ftdi_manager, n1mm_listener, antenna_genius,
                                     settings, is_active, radio_freq>>) ]_vars

\* C25: no exception leaves a public operation of the listener or of the
\* client, whatever the network answers and whatever port number is configured:
\* the setup_socket and set_antenna calls made by a tick return
C25_NoExceptionEscapes ==
    /\ tick.bind_ret # "raised"
    /\ tick.ag_ret # "raised"

\* the order in which one tick may bind, poll, record and dispatch
TickOrder == <<"bind", "poll", "record", "set_antenna", "write_bcd">>

Position(e) == CHOOSE i \in 1..Len(TickOrder) : TickOrder[i] = e

InTickOrder(events) ==
    \A i, j \in 1..Len(events) : i < j => Position(events[i]) < Position(events[j])

\* C30: one tick makes at most one bind, one poll, one set_antenna and one
\* write_bcd, in that order; the frequency is recorded before set_antenna is
\* called and set_antenna has returned before write_bcd is called; every
\* accepted Radio-1 sample is dispatched, also when its band is the band of
\* the frequency recorded before
C30_TickOrder ==
    tick.op = "update_frequency" =>
        /\ InTickOrder(tick.events)
        /\ ("set_antenna" \in Range(tick.events) => "record" \in Range(tick.events))
        /\ ("write_bcd" \in Range(tick.events)
              => /\ "set_antenna" \in Range(tick.events)
                 /\ tick.ag_ret \in {"True", "False"})
        /\ (RadioOneSample(tick) => "set_antenna" \in Range(tick.events))
        /\ (RadioOneSample(tick) /\ tick.ag_ret \in {"True", "False"}
              => "write_bcd" \in Range(tick.events))

\* a tick bound, polled and dispatched a sample of the band that was already
\* selected
C30_Witness ==
    /\ RadioOneSample(tick)
    /\ tick.pre.radio_freq # 0
    /\ get_bcd(TruncHundredths(tick.pre.radio_freq)) = get_bcd(TruncHundredths(tick.freq))
    /\ tick.events = TickOrder

\* C13: the k-th set_antenna call on a client builds its command with tag
\* k mod 100 and leaves the counter at that value, whether the call succeeds or
\* fails; the counter is always in 0..99.
C13_SequenceTag ==
    /\ antenna_genius.command_counter \in 0..99
    /\ AgCalled => /\ antenna_genius.command_counter = calls % 100
                   /\ (ag_io.ret = "True" => ag_io.command[1] = calls % 100)

\* the 101st call succeeds with tag 1 after a failed call
C13_Witness ==
    /\ AgCalled
    /\ calls = 101
    /\ ag_io.ret = "True"
    /\ ag_io.prev_ret = "False"
    /\ ag_io.command[1] = 1

\* C14: set_antenna opens a new connection if and only if no connection is held,
\* or the target differs from the held connection's target, or the held
\* connection was established more than 30 seconds ago.
C14_ConnectionReuse ==
    AgCalled
      => (ag_io.connects = 1
            <=> \/ ag_io.pre.socket # "connected"
                \/ ag_io.pre.connection_address # ag_io.target
                \/ ag_io.at - ag_io.pre.last_connection_time > 30)

\* the call met a socket-level failure: its connect failed, or its send failed
\* on the connection it opened or reused
AgFailureMet ==
    /\ AgCalled
    /\ IF ag_io.connects = 1
       THEN PortInRange(ag_io.target[2]) /\ (ag_io.net.connect # "ok" \/ ag_io.net.send # "ok")
       ELSE ag_io.net.send # "ok"

\* C15: a set_antenna call that meets a socket-level failure returns False and
\* leaves the client without a socket, and the set_antenna call after a failed
\* one opens a new connection.
C15_DiscardOnError ==
    /\ AgFailureMet => ag_io.ret = "False" /\ antenna_genius.socket = "None"
    /\ (AgCalled /\ ag_io.prev_ret = "False") => ag_io.connects = 1

\* a send fails on a reused connection and the call after it reconnects
C15_Witness ==
    /\ AgCalled
    /\ ag_io.prev_ret = "False"
    /\ ag_io.connects = 1
    /\ ag_io.ret = "True"
    /\ ag_io.target = ag_io.pre.connection_address

\* C16: with a status callback installed every set_antenna call invokes it
\* exactly once: with the success message iff the call returns True, with a
\* failure message iff it returns False.
C16_StatusNotification ==
    (AgCalled /\ ag_io.pre.status_callback)
      => /\ Len(ag_io.notified) = 1
         /\ (ag_io.notified[1] = "AG Message Delivered!" <=> ag_io.ret = "True")
         /\ (ag_io.notified[1] \in FailureMessages <=> ag_io.ret = "False")

\* C17: a client without status callback returns the same results, sends the
\* same commands and holds the same connection state and counter as a client
\* with one, after every call of the same sequence.
C17_CallbackAbsence ==
    /\ ~ag_twin.self.status_callback
    /\ antenna_genius.status_callback
    /\ [ag_twin.self EXCEPT !.status_callback = TRUE] = antenna_genius
    /\ ag_io.op \in {"set_antenna", "close"}
         => /\ ag_twin.ret = ag_io.ret
            /\ ag_twin.command = ag_io.command
            /\ ag_twin.connects = ag_io.connects
            /\ ag_twin.closes = ag_io.closes

\* the callback is told of a failure that the twin meets silently, after a
\* delivered command
C17_Witness ==
    /\ AgCalled
    /\ ag_io.ret = "False"
    /\ ag_io.prev_ret = "True"
    /\ ag_io.notified # << >>
    /\ ag_twin.notified = << >>

\* C18: after close() the client holds no socket, also when closing it raised;
\* close() on a client without socket does nothing; the set_antenna call after
\* a close() opens a new connection.
C18_AgCloseIdempotent ==
    /\ ag_io.op = "close"
         => /\ antenna_genius.socket = "None"
            /\ ag_io.closes = (IF ag_io.pre.socket # "None" THEN 1 ELSE 0)
            /\ (ag_io.pre.socket = "None" => antenna_genius = ag_io.pre)
            /\ antenna_genius = [ag_io.pre EXCEPT !.socket = "None"]
    /\ (AgCalled /\ ag_io.prev_op = "close") => ag_io.connects = 1

\* closing a connected socket raises
C18_Witness ==
    /\ ag_io.op = "close"
    /\ ag_io.pre.socket = "connected"
    /\ ag_io.close_raises
    /\ antenna_genius.socket = "None"

(* Properties of N1MMListener called directly *)

\* C19: after close() the listener holds no socket, whether or not closing it
\* raised; the socket is closed once; close() without socket does nothing; a
\* setup_socket after close() can bind.
C19_ListenerCloseIdempotent ==
    /\ n1mm_io.op = "close"
         => /\ n1mm_listener.sock = "None"
            /\ n1mm_io.closes = (IF n1mm_io.pre.sock # "None" THEN 1 ELSE 0)
            /\ (n1mm_io.pre.sock = "None" => n1mm_listener = n1mm_io.pre)
    /\ (n1mm_io.op = "setup_socket" /\ n1mm_io.prev_op = "close"
          /\ n1mm_io.os = "ok" /\ PortInRange(n1mm_io.udp_port))
         => n1mm_io.ret = "True" /\ n1mm_listener.sock = "bound"

\* closing a bound socket raises
C19_Witness ==
    /\ n1mm_io.op = "close"
    /\ n1mm_io.pre.sock = "bound"
    /\ n1mm_io.close_raises
    /\ n1mm_listener.sock = "None"

(* Properties of band_helpers *)

\* the bands in ascending order, the band above the last edge being none
BandTable ==
    << [name |-> "160m", bcd |-> 1, port |-> 1],
       [name |-> "80m", bcd |-> 2, port |-> 2],
       [name |-> "60m", bcd |-> 0, port |-> 11],
       [name |-> "40m", bcd |-> 3, port |-> 3],
       [name |-> "30m", bcd |-> 4, port |-> 4],
       [name |-> "20m", bcd |-> 5, port |-> 5],
       [name |-> "17m", bcd |-> 6, port |-> 6],
       [name |-> "15m", bcd |-> 7, port |-> 7],
       [name |-> "12m", bcd |-> 8, port |-> 8],
       [name |-> "10m", bcd |-> 9, port |-> 9],
       [name |-> "6m", bcd |-> 10, port |-> 10],
       [name |-> "unknown", bcd |-> 0, port |-> 1] >>

\* the band whose half-open interval holds v: one band up for every edge at or
\* below v
BandOf(v) == BandTable[1 + Cardinality({ b \in BandEdges : b <= v })]

\* C26: get_band_name is total with half-open ascending intervals: it returns
\* one of the eleven band names or "unknown" for every integer, an edge belongs
\* to the band above it and the integer below the edge to the band below,
\* everything below 2000 is "160m" and everything from 60000 on is "unknown"
C26_BandNameIntervals ==
    band.name # "" =>
        /\ band.name \in { BandTable[k].name : k \in DOMAIN BandTable }
        /\ band.name = BandOf(band.frequency).name
        /\ (band.frequency < 2000 => band.name = "160m")
        /\ (band.frequency >= 60000 => band.name = "unknown")
        /\ (band.frequency \in BandEdges \ {60000}
              => band.name # get_band_name(band.frequency - 1))

\* the name of the edge 2000 was asked for
C26_Witness ==
    /\ band.op = "get_band_name"
    /\ band.frequency = 2000
    /\ band.name = "80m"

\* C27: get_bcd and get_ag_band return the BCD nibble and the antenna port of
\* the tables for the band of the frequency's interval; the nibble is in
\* 0..10 and the port in 1..11
C27_ProjectionsMatchTables ==
    /\ (band.bcd # -1 => /\ band.bcd = BandOf(band.frequency).bcd
                          /\ band.bcd \in 0..10)
    /\ (band.port # -1 => /\ band.port = BandOf(band.frequency).port
                           /\ band.port \in 1..11)

\* both projections of a 60m frequency were asked for
C27_Witness ==
    /\ band.frequency = 5500
    /\ band.bcd = 0
    /\ band.port = 11

(* Properties of config *)

RequiredKeys == {"logger_ip", "logger_udp", "AG_1_IP", "AG_1_UDP_Port", "AG_1_RF_Port"}

C29_OptionalDefaulted ==
    (cfg.op = "validate_config" /\ SIM_MODE_KEY \notin DOMAIN cfg.config)
        => /\ SIM_MODE_KEY \in DOMAIN cfg.validated
           /\ cfg.validated[SIM_MODE_KEY] = Boolean("False")

(* Properties of DecoderEngine, continued *)

\* C32: in an Active tick a logger port setting that is no integer string
\* makes the engine bind port 12060 and go on to poll, and a switch port
\* setting that is no integer string makes it call set_antenna with port 9007
\* and go on to write_bcd
C32_PortDefaults ==
    (tick.op = "update_frequency" /\ tick.pre.is_active) =>
        /\ (tick.pre.sock = "None" /\ ~ParseInt(tick.pre.settings.logger_udp).ok
              => /\ tick.bind_attempted
                 /\ tick.bind_port = 12060
                 /\ (tick.bind_ret = "True" => tick.polled))
        /\ (RadioOneSample(tick) /\ ~ParseInt(tick.pre.settings.AG_1_UDP_Port).ok
              => /\ tick.ag_called
                 /\ tick.ag_port = 9007
                 /\ tick.bcd_called
                 /\ tick.returned)

\* a Radio-1 sample was dispatched while the switch port setting was "abc"
C32_Witness ==
    /\ RadioOneSample(tick)
    /\ ~ParseInt(tick.pre.settings.AG_1_UDP_Port).ok
    /\ tick.ag_port = 9007
    /\ tick.bcd_called

\* DecoderEngine.get_current_frequency
get_current_frequency(self) == self.radio_freq

\* C37: get_current_frequency() is the frequency that update_frequency
\* returned last, 0 before any was returned: the recorded frequency changes
\* only in a tick that returns it
C37_FrequencyIsLastReturned ==
    [][ get_current_frequency(Engine)' # get_current_frequency(Engine)
          => /\ tick'.op = "update_frequency"
             /\ tick'.returned
             /\ tick'.freq = get_current_frequency(Engine)' ]_vars

\* C38: an update_frequency call that follows shutdown, also a shutdown of an
\* Active engine, does not bind, does not poll and dispatches neither to the
\* switch nor to the filter bank
C38_NoIoAfterShutdown ==
    [][ (tick.op = "shutdown" /\ calls' # calls /\ tick'.op = "update_frequency")
          => /\ ~tick'.bind_attempted
             /\ ~tick'.polled
             /\ ~tick'.ag_called
             /\ ~tick'.bcd_called ]_vars

\* C39: after shutdown neither the listener nor the switch client holds a
\* socket
C39_NoSocketAfterShutdown ==
    tick.op = "shutdown" =>
        /\ n1mm_listener.sock = "None"
        /\ antenna_genius.socket = "None"

\* C33: an engine constructed with forced simulation has a manager that never
\* discovers, configures, writes or releases hardware: it holds no handle,
\* lists exactly the one simulated URL, and every write_bcd is only logged
C33_ForcedSimulationNoHardware ==
    engine_simulation_mode =>
        /\ ftdi_manager.simulation_mode
        /\ \A i \in Slots : ~HoldsHandle(ftdi_manager, i)
        /\ ftdi_manager.configured_devices = << >>
        /\ get_device_urls(ftdi_manager) = <<SIM_URL>>
        /\ ftdi_io.writes = << >>
        /\ ftdi_io.releases = << >>
        /\ (ftdi_io.op = "write_bcd" => ftdi_io.simulated)

\* a tick of an engine in forced simulation called write_bcd
C33_Witness ==
    /\ engine_simulation_mode
    /\ tick.bcd_called
    /\ ftdi_io.op = "write_bcd"
    /\ ftdi_io.simulated

\* C34: the simulation indicator that the UI shows, DecoderEngine.simulation_mode,
\* is the mode of the manager in every state
C34_IndicatorIsManagerMode ==
    engine_simulation_mode = ftdi_manager.simulation_mode

(* Properties of AntennaGenius, continued *)

Held(self) == IF self.socket # "None" THEN 1 ELSE 0

\* the sockets that the last call on the client stopped holding without
\* calling close() on them: those held before and those created in the call,
\* less those closed in the call and the one held after it
DroppedUnclosed == Held(ag_io.pre) + ag_io.connects - ag_io.closes - Held(antenna_genius)

\* C36: every socket that the client stops holding in a set_antenna or close
\* call, whatever the network answers, was closed by the client before or
\* when it dropped the reference, so that the client never has more than one
\* open socket
C36_DroppedSocketsClosed ==
    ag_io.op \in {"set_antenna", "close"} => DroppedUnclosed = 0

(* Properties of DecoderEngine while the settings change *)

\* C40: every poll is made on a socket bound to the logger address and port
\* of the settings the engine has at the time of the poll
C40_PollOnConfiguredAddress ==
    (tick.op = "update_frequency" /\ tick.polled)
        => n1mm_listener.sockname = <<settings.logger_ip, LoggerPort(settings)>>

(* Properties of DecoderEngine and band_helpers *)

\* C35: for every accepted sample with Freq F >= 0 the band that
\* get_current_band() names for the recorded frequency F/100 is the band whose
\* antenna port and BCD nibble the engine dispatched from int(F/100):
\* truncation moves no sample across a band edge
C35_ProjectionsAgree ==
    (RadioOneSample(tick) /\ tick.freq >= 0 /\ tick.bcd_called) =>
        /\ get_current_band(Engine) = get_band_name(TruncHundredths(tick.freq))
        /\ \E k \in DOMAIN BandTable :
              /\ BandTable[k].name = get_current_band(Engine)
              /\ BandTable[k].port = tick.ag_band
              /\ BandTable[k].bcd = tick.bcd_value

\* a sample one hundredth of a kHz below the 80m edge was dispatched as 160m
C35_Witness ==
    /\ RadioOneSample(tick)
    /\ tick.freq = 199999
    /\ tick.bcd_called
    /\ tick.ag_band = 1
    /\ get_current_band(Engine) = "160m"

(* Properties of DecoderUI *)

\* C31: at any time at most one tick is executing or pending and two ticks
\* never overlap; the next tick is scheduled only after update_frequency has
\* returned, and every tick, whatever its outcome, ends with exactly one
\* further tick scheduled
C31_TicksSerialised ==
    [][ /\ ui.after + ui.running <= 1
        /\ ui'.after + ui'.running <= 1
        /\ (ui'.after > ui.after => ui.running = 1 /\ calls > ui.entered)
        /\ (ui.running = 1 /\ ui'.running = 0 => ui'.after = 1) ]_vars

\* a tick whose set_antenna raised has ended and the next one is pending
C31_Witness ==
    /\ tick.op = "update_frequency"
    /\ tick.ag_ret = "raised"
    /\ calls > ui.entered
    /\ ui.running = 0
    /\ ui.after = 1
====
